---- MODULE Spec2Model ----
(***************************************************************************)
(* Model of the secure trading widget backend: the WebSocket gateway       *)
(* (widget.websocket.js, widget.connection_manager.js,                     *)
(* widget.rate_limiter.js) and the trade-token issuer (widget.service.js,  *)
(* widget.controller.js, models/postgres/widget.js) as they are written in *)
(* src/_documentation/backend_implementation_plan.md, and the exchange's   *)
(* verify_trade_token of src/_documentation/EXCHANGE_INTEGRATION_GUIDE.md. *)
(*                                                                         *)
(* The gateway is one Node.js process with one Redis client: handlers run  *)
(* to their next await without interleaving, and Redis commands take       *)
(* effect in the order they are issued.  An `await` is therefore a split   *)
(* between two actions: the first issues the command (its effect on Redis  *)
(* and the value it will return are fixed there), the second resumes the   *)
(* handler with that value.                                                *)
(***************************************************************************)
EXTENDS Integers, Sequences, FiniteSets, TLC

VARIABLES
    exchanges,    \* table exchange_configurations: exchange_id -> row
    connections,  \* widget_connection_manager.connections: socket_id -> entry
    redis_count,  \* Redis widget:connections:<exchange_id>:count
    redis_ip,     \* Redis widget:connections:ip:<ip>
    redis_set,    \* Redis widget:connections:<exchange_id> (set of socket ids)
    redis_ttl,    \* Redis: when the keys of an exchange / of an address expire (0: no expiry set)
    sess,         \* per socket: the closure variables of wss.on('connection')
    handlers,     \* per socket: the async message handlers now suspended
    frames,       \* per socket: the frames received so far, each with is_authenticated at its arrival
    redis_rate,   \* Redis widget:rate:<socket_id>:<minute>: per socket, the latest minute's key
    acct,         \* per socket: how often the counters were incremented / decremented for it
    widget_trades,\* table widget_trades: the audit rows
    uuid,         \* the number of trade_ids gen_random_uuid() has produced
    reqs,         \* per HTTP request to /widget/generate-trade-token: body, position, response
    now,          \* Date.now(), in milliseconds
    verified,     \* the exchange backend's verify_trade_token calls: what was presented and the result
    broadcasts,   \* the calls of broadcast_to_all / broadcast_to_exchange so far and the last one's result
    client        \* the widget's WebSocketService (src/services/websocket_service.ts) and its socket

gateway_vars == <<exchanges, connections, redis_count, redis_ip, redis_set, redis_ttl, sess, handlers, frames, redis_rate, acct>>

issuer_vars == <<widget_trades, uuid, reqs, now, verified>>

delivery_vars == <<broadcasts, client>>

vars == <<gateway_vars, issuer_vars, delivery_vars>>

----------------------------------------------------------------------------
(* Bounds of the model *)

NumSessions == 2
ConnLimit == 1
SimulLimit == 2
SeqLimit == 11
NumRequests == 2
MaxIssueTicks == 3
MaxVerifyTicks == 3
AuthSessions == 1
MessageSessions == 1
MaxInFlight == 1
\* The messages per minute the tenants of SpecTenantRate are configured with.
TenantRate == 2
\* SpecWindow: the messages a socket sends in a minute beyond messages_per_minute,
\* and the minute boundaries that pass.
WindowExtra == 2
MaxMinutes == 1
\* SpecTenants: the sockets of tenant acme, the sockets of tenant zeta and
\* the pings a socket sends.
TenantASessions == 2
TenantBSessions == 1
TenantPings == 1
MaxFrames == 2
WireRequests == 2
MaxUnanswered == 2
MaxBroadcasts == 1
ClientSockets == 7
\* The ping frames the service sends in SpecClient.
ClientPings == 1
\* The sockets of the service the gateway accepts in SpecClient: the later
\* ones fail to connect.
GatewaySockets == 2
\* The sockets the service creates in SpecReconnect.
ReconnectSockets == 3
\* SpecTtl: the days the gateway stays up, and the milliseconds before and
\* across the end of CONNECTION_TTL.
MaxTtlDays == 1
TtlEarly == 5000
TtlShort == 6000
\* The messages a server sends on one socket in SpecReconnect.
MaxPeerMessages == 1

(* Program constants *)

\* DEFAULT_LIMITS of widget.rate_limiter.js
DEFAULT_LIMITS ==
    [max_connections_per_exchange |-> 10000, max_connections_per_ip |-> 10,
     messages_per_minute |-> 60]

ExchangeIds == {"acme", "zeta"}
Ips == {"10.0.0.1", "10.0.0.2"}

\* CONNECTION_TTL, in seconds: the EXPIRE of the keys of connection accounting.
CONNECTION_TTL == 86400
NoExchange == "none"
NoEntry == [exchange_id |-> NoExchange, ip |-> "10.0.0.1"]

\* Rows of exchange_configurations: acme is the active tenant of the spec's
\* scenario (connection key wk_1, signing key sk_1), zeta is disabled.
ExchangeRows(limit) ==
    [e \in ExchangeIds |->
        IF e = "acme"
        THEN [exchange_id |-> "acme", api_key |-> "wk_1", secret_signing_key |-> "sk_1",
              display_name |-> "Acme", theme_config |-> "theme_acme", feature_flags |-> "flags_acme",
              allowed_origins |-> {}, rate_limit_connections |-> limit,
              rate_limit_messages_per_minute |-> DEFAULT_LIMITS.messages_per_minute, is_active |-> TRUE]
        ELSE [exchange_id |-> "zeta", api_key |-> "wk_2", secret_signing_key |-> "sk_2",
              display_name |-> "Zeta", theme_config |-> "theme_zeta", feature_flags |-> "flags_zeta",
              allowed_origins |-> {}, rate_limit_connections |-> limit,
              rate_limit_messages_per_minute |-> DEFAULT_LIMITS.messages_per_minute, is_active |-> FALSE]]

----------------------------------------------------------------------------
(* models/postgres/widget.js *)

\* get_exchange_by_api_key: the rows whose api_key matches (api_key is UNIQUE).
get_exchange_by_api_key(api_key) ==
    {e \in DOMAIN exchanges : exchanges[e].api_key = api_key}

----------------------------------------------------------------------------
(* The ws socket: send and close *)

\* socket.send: delivered only while the socket is OPEN.
SocketSend(ss, msg) ==
    IF ss.readyState = "OPEN" THEN [ss EXCEPT !.outbox = Append(@, msg)] ELSE ss

\* socket.close(code): starts the closing handshake of an OPEN socket; the
\* 'close' event comes later.
SocketClose(ss, code) ==
    IF ss.readyState = "OPEN" THEN [ss EXCEPT !.readyState = "CLOSING", !.close_code = code] ELSE ss

send_error(ss, error, code) ==
    SocketSend(ss, [type |-> "error", error |-> error, code |-> code])

\* send_error followed by socket.close, as every failure branch of handle_auth does.
Reject(ss, error, code) == SocketClose(send_error(ss, error, code), code)

----------------------------------------------------------------------------
(* widget.rate_limiter.js *)

\* const limits = { ...DEFAULT_LIMITS, ...exchange_limits }
MergeLimits(exchange_limits) == exchange_limits @@ DEFAULT_LIMITS

\* Mutant: the exchange limit compared with > instead of >=.
ExchangeLimitReached_gt(exchange_count, limits) ==
    exchange_count > limits.max_connections_per_exchange

\* check_connection_limits, first comparison: the exchange's count against its limit.
ExchangeLimitReached(exchange_count, limits) ==
    exchange_count >= limits.max_connections_per_exchange

\* check_connection_limits, second comparison: the address's count against its limit.
IpLimitReached(ip_count, limits) ==
    ip_count >= limits.max_connections_per_ip

----------------------------------------------------------------------------
(* State after construction *)

NewSession ==
    [readyState |-> "NONE", ip |-> "10.0.0.1", origin |-> "",
     exchange_id |-> NoExchange, is_authenticated |-> FALSE,
     auth_timeout |-> FALSE, heartbeat_interval |-> FALSE, intervals |-> 0,
     close_code |-> 0, outbox |-> <<>>, unanswered |-> 0]

\* The gateway after start with the rows of exchange_configurations given.
GatewayInitRows(n, rows) ==
    /\ exchanges = rows
    /\ connections = [k \in {} |-> NoEntry]
    /\ redis_count = [e \in ExchangeIds |-> 0]
    /\ redis_ip = [i \in Ips |-> 0]
    /\ redis_set = [e \in ExchangeIds |-> {}]
    /\ redis_ttl = [k \in ExchangeIds \cup Ips |-> 0]
    /\ sess = [s \in 1..n |-> NewSession]
    /\ handlers = [s \in 1..n |-> <<>>]
    /\ frames = [s \in 1..n |-> <<>>]
    /\ redis_rate = [s \in 1..n |-> [minute |-> 0, count |-> 0]]
    /\ acct = [s \in 1..n |-> [incr |-> 0, decr |-> 0]]

GatewayInit(n, limit) == GatewayInitRows(n, ExchangeRows(limit))

\* A request that has not arrived yet.
NoBody ==
    [exchange_id |-> "", exchange_user_id |-> "", has_trade_params |-> FALSE,
     trade_params |-> [coin |-> "", side |-> "", amount |-> [t |-> "undefined", v |-> 0], news_id |-> ""]]

\* The response of a request: status and the body's success and error;
\* data holds the body's data object when there is one.  tokens, trade_id and
\* expires_in are the members of the data object of an issuance.
NoResponse ==
    [status |-> 0, success |-> FALSE, error |-> "", data |-> {},
     tokens |-> {}, trade_id |-> 0, expires_in |-> 0]

\* A request slot: route is /widget/generate-trade-token unless the request
\* arrives at /widget/config.
NewRequest ==
    [route |-> "generate-trade-token", pc |-> "new", body |-> NoBody, code |-> "",
     trade_id |-> 0, inserts |-> 0, response |-> NoResponse]

IssuerInit(n) ==
    /\ widget_trades = {}
    /\ uuid = 0
    /\ reqs = [r \in 1..n |-> NewRequest]
    /\ now = 0
    /\ verified = {}

\* No broadcast made yet.
NoBroadcast ==
    [calls |-> 0, fn |-> "", exchange_id |-> NoExchange, throws |-> {}, sent |-> 0]

\* The fields of WebSocketService after construction (lines 14-19); socket is
\* the number of the socket it holds (0: null), state that socket's readyState,
\* intervals the number of ping intervals armed, others the sockets it created
\* and holds no more that are not closed, with their readyState and the
\* number of messages read from each; established says the socket has had
\* its open event; sent holds, per socket, the frames the service has sent
\* on it.
NewClient ==
    [has_config |-> FALSE, api_key |-> "", socket |-> 0, state |-> "NONE",
     reconnect_attempts |-> 0, ping_interval |-> FALSE, reconnect_timer |-> 0,
     is_connected |-> FALSE, on_open |-> 0, read |-> 0, sent |-> <<>>,
     close_code |-> 0, opened |-> 0, delays |-> <<>>,
     intervals |-> 0, established |-> FALSE,
     others |-> [n \in {} |-> [state |-> "NONE", read |-> 0, established |-> FALSE]]]

DeliveryInit == broadcasts = NoBroadcast /\ client = NewClient

Init == GatewayInit(NumSessions, ConnLimit) /\ IssuerInit(0) /\ DeliveryInit

----------------------------------------------------------------------------
(* widget.websocket.js *)

NoMessage == [type |-> "", api_key |-> ""]

\* A frame whose text is JSON.stringify(message).
Json(message) == [json |-> TRUE, text |-> "", message |-> message]

\* A frame whose text is no JSON document, such as the bare ping.
Text(text) == [json |-> FALSE, text |-> text, message |-> NoMessage]

\* JSON.parse(data.toString()): throws a SyntaxError on text that is no JSON.
JSON_parse_throws(data) == ~data.json

JSON_parse(data) == data.message

\* The entry of the frame log: the frame, is_authenticated when it arrived and
\* the time of arrival (Date.now()).
Received(s, data) ==
    [data |-> data, is_authenticated |-> sess[s].is_authenticated, at |-> now]

\* wss.on('connection'): a new socket; the auth timeout is armed.
Connection(s, ip, origin) ==
    /\ sess[s].readyState = "NONE"
    /\ sess' = [sess EXCEPT ![s] = [@ EXCEPT !.readyState = "OPEN", !.ip = ip,
                                             !.origin = origin, !.auth_timeout = TRUE]]
    /\ UNCHANGED <<issuer_vars, delivery_vars, redis_rate, exchanges, connections, redis_count, redis_ip, redis_set, redis_ttl, handlers, frames, acct>>

\* Mutant: the timer's callback does nothing.
AuthTimeout_idle(s) ==
    /\ sess[s].auth_timeout
    /\ sess' = [sess EXCEPT ![s] = [@ EXCEPT !.auth_timeout = FALSE]]
    /\ UNCHANGED <<issuer_vars, delivery_vars, redis_rate, exchanges, connections, redis_count, redis_ip, redis_set, redis_ttl, handlers, frames, acct>>

\* The auth timeout fires (setTimeout callback, lines 756-761).
AuthTimeout(s) ==
    /\ sess[s].auth_timeout
    /\ sess' = [sess EXCEPT ![s] =
                  IF ~sess[s].is_authenticated
                  THEN [Reject(sess[s], "authentication timeout", 4001) EXCEPT !.auth_timeout = FALSE]
                  ELSE [sess[s] EXCEPT !.auth_timeout = FALSE]]
    /\ UNCHANGED <<issuer_vars, delivery_vars, redis_rate, exchanges, connections, redis_count, redis_ip, redis_set, redis_ttl, handlers, frames, acct>>

\* socket.on('message') with a frame JSON.parse rejects: the catch block.
MessageParseError(s, data) ==
    /\ sess[s].readyState \in {"OPEN", "CLOSING"}
    /\ JSON_parse_throws(data)
    /\ sess' = [sess EXCEPT ![s] = send_error(@, "invalid message format", 4007)]
    /\ frames' = [frames EXCEPT ![s] = Append(@, Received(s, data))]
    /\ UNCHANGED <<issuer_vars, delivery_vars, redis_rate, exchanges, connections, redis_count, redis_ip, redis_set, redis_ttl, handlers, acct>>

\* socket.on('message') while !is_authenticated: handle_auth up to its first await.
StartHandleAuth(s, message) ==
    /\ sess[s].readyState \in {"OPEN", "CLOSING"}
    /\ ~sess[s].is_authenticated
    /\ IF message.type # "auth" \/ message.api_key = ""
       THEN /\ sess' = [sess EXCEPT ![s] = Reject(@, "invalid auth message", 4002)]
            /\ UNCHANGED handlers
       ELSE /\ handlers' = [handlers EXCEPT ![s] =
                  Append(@, [pc |-> "lookup", api_key |-> message.api_key,
                             exchange_id |-> NoExchange, count |-> 0])]
            /\ UNCHANGED sess
    /\ frames' = [frames EXCEPT ![s] = Append(@, Received(s, Json(message)))]
    /\ UNCHANGED <<issuer_vars, delivery_vars, redis_rate, exchanges, connections, redis_count, redis_ip, redis_set, redis_ttl, acct>>

RemoveAt(seq, i) == SubSeq(seq, 1, i - 1) \o SubSeq(seq, i + 1, Len(seq))

\* Mutant: a connection without an origin held against the allow-list too.
OriginRejected_empty_origin(allowed_origins, origin) ==
    allowed_origins # {} /\ origin \notin allowed_origins

\* The origin check of handle_auth: allowed_origins?.length > 0 && origin, and
\* the origin not included.
OriginRejected(allowed_origins, origin) ==
    allowed_origins # {} /\ origin # "" /\ origin \notin allowed_origins

NoFailure == [error |-> "", code |-> 0]

\* Mutant: the origin checked before is_active.
AuthFailure_origin_first(rows, origin) ==
    IF rows = {}
    THEN [error |-> "invalid api key", code |-> 4002]
    ELSE LET exchange_config == exchanges[CHOOSE e \in rows : TRUE]
         IN IF OriginRejected(exchange_config.allowed_origins, origin)
            THEN [error |-> "origin not allowed", code |-> 4008]
            ELSE IF ~exchange_config.is_active
            THEN [error |-> "exchange inactive", code |-> 4003]
            ELSE NoFailure

\* The checks of handle_auth on the row of get_exchange_by_api_key, in the
\* order of the code: the first that fails, NoFailure when all pass.
AuthFailure(rows, origin) ==
    IF rows = {}
    THEN [error |-> "invalid api key", code |-> 4002]
    ELSE LET exchange_config == exchanges[CHOOSE e \in rows : TRUE]
         IN IF ~exchange_config.is_active
            THEN [error |-> "exchange inactive", code |-> 4003]
            ELSE IF OriginRejected(exchange_config.allowed_origins, origin)
            THEN [error |-> "origin not allowed", code |-> 4008]
            ELSE NoFailure

\* handle_auth resumes with the row of get_exchange_by_api_key: the key, active
\* and origin checks, then check_connection_limits up to its first await
\* (get_exchange_connection_count: parseInt(count || '0')).
ResumeLookup(s, i) ==
    /\ i \in DOMAIN handlers[s]
    /\ handlers[s][i].pc = "lookup"
    /\ LET h == handlers[s][i]
           rows == get_exchange_by_api_key(h.api_key)
           failure == AuthFailure(rows, sess[s].origin)
       IN IF failure # NoFailure
          THEN /\ sess' = [sess EXCEPT ![s] = Reject(@, failure.error, failure.code)]
               /\ handlers' = [handlers EXCEPT ![s] = RemoveAt(@, i)]
          ELSE LET exchange_config == exchanges[CHOOSE e \in rows : TRUE]
               IN /\ handlers' = [handlers EXCEPT ![s][i] =
                        [@ EXCEPT !.pc = "exchange_count",
                                  !.exchange_id = exchange_config.exchange_id,
                                  !.count = redis_count[exchange_config.exchange_id]]]
                  /\ UNCHANGED sess
    /\ UNCHANGED <<issuer_vars, delivery_vars, redis_rate, exchanges, connections, redis_count, redis_ip, redis_set, redis_ttl, frames, acct>>

\* The limits handle_auth passes for the exchange of a suspended handler.
LimitsOf(h) ==
    MergeLimits([max_connections_per_exchange |-> exchanges[h.exchange_id].rate_limit_connections])

\* Variant: the address count is compared before the exchange count.
ResumeExchangeCount_ip_first(s, i) ==
    /\ i \in DOMAIN handlers[s]
    /\ handlers[s][i].pc = "exchange_count"
    /\ LET h == handlers[s][i]
       IN IF IpLimitReached(redis_ip[sess[s].ip], LimitsOf(h))
          THEN /\ sess' = [sess EXCEPT ![s] = Reject(@, "ip connection limit reached", 4005)]
               /\ handlers' = [handlers EXCEPT ![s] = RemoveAt(@, i)]
          ELSE IF ExchangeLimitReached(h.count, LimitsOf(h))
          THEN /\ sess' = [sess EXCEPT ![s] = Reject(@, "exchange connection limit reached", 4004)]
               /\ handlers' = [handlers EXCEPT ![s] = RemoveAt(@, i)]
          ELSE /\ handlers' = [handlers EXCEPT ![s][i] =
                     [@ EXCEPT !.pc = "ip_count", !.count = redis_ip[sess[s].ip]]]
               /\ UNCHANGED sess
    /\ UNCHANGED <<issuer_vars, delivery_vars, redis_rate, exchanges, connections, redis_count, redis_ip, redis_set, redis_ttl, frames, acct>>

\* check_connection_limits resumes with the exchange count: deny with 4004, or
\* go on to get_ip_connection_count.
ResumeExchangeCount(s, i) ==
    /\ i \in DOMAIN handlers[s]
    /\ handlers[s][i].pc = "exchange_count"
    /\ LET h == handlers[s][i]
       IN IF ExchangeLimitReached(h.count, LimitsOf(h))
          THEN /\ sess' = [sess EXCEPT ![s] = Reject(@, "exchange connection limit reached", 4004)]
               /\ handlers' = [handlers EXCEPT ![s] = RemoveAt(@, i)]
          ELSE /\ handlers' = [handlers EXCEPT ![s][i] =
                     [@ EXCEPT !.pc = "ip_count", !.count = redis_ip[sess[s].ip]]]
               /\ UNCHANGED sess
    /\ UNCHANGED <<issuer_vars, delivery_vars, redis_rate, exchanges, connections, redis_count, redis_ip, redis_set, redis_ttl, frames, acct>>

\* Variant: one connection count shared by all exchanges.
add_connection_shared_count(s, exchange_id, ip) ==
    /\ connections' = [k \in DOMAIN connections \cup {s} |->
                         IF k = s THEN [exchange_id |-> exchange_id, ip |-> ip]
                         ELSE connections[k]]
    /\ redis_set' = [redis_set EXCEPT ![exchange_id] = @ \cup {s}]
    /\ redis_count' = [e \in ExchangeIds |-> redis_count[e] + 1]
    /\ redis_ip' = [redis_ip EXCEPT ![ip] = @ + 1]
    /\ redis_ttl' = [redis_ttl EXCEPT ![exchange_id] = now + CONNECTION_TTL * 1000,
                                      ![ip] = now + CONNECTION_TTL * 1000]
    /\ acct' = [acct EXCEPT ![s].incr = @ + 1]

\* widget_connection_manager.add_connection up to await pipeline.exec(): the
\* registry entry is set and the MULTI is issued: sadd, incr, incr, each with
\* EXPIRE CONNECTION_TTL on its key.
add_connection(s, exchange_id, ip) ==
    /\ connections' = [k \in DOMAIN connections \cup {s} |->
                         IF k = s THEN [exchange_id |-> exchange_id, ip |-> ip]
                         ELSE connections[k]]
    /\ redis_set' = [redis_set EXCEPT ![exchange_id] = @ \cup {s}]
    /\ redis_count' = [redis_count EXCEPT ![exchange_id] = @ + 1]
    /\ redis_ip' = [redis_ip EXCEPT ![ip] = @ + 1]
    /\ redis_ttl' = [redis_ttl EXCEPT ![exchange_id] = now + CONNECTION_TTL * 1000,
                                      ![ip] = now + CONNECTION_TTL * 1000]
    /\ acct' = [acct EXCEPT ![s].incr = @ + 1]

\* check_connection_limits resumes with the address count: deny with 4005, or
\* authentication succeeds: clearTimeout, is_authenticated, add_connection.
ResumeIpCount(s, i) ==
    /\ i \in DOMAIN handlers[s]
    /\ handlers[s][i].pc = "ip_count"
    /\ LET h == handlers[s][i]
       IN IF IpLimitReached(h.count, LimitsOf(h))
          THEN /\ sess' = [sess EXCEPT ![s] = Reject(@, "ip connection limit reached", 4005)]
               /\ handlers' = [handlers EXCEPT ![s] = RemoveAt(@, i)]
               /\ UNCHANGED <<connections, redis_count, redis_ip, redis_set, redis_ttl, acct>>
          ELSE /\ sess' = [sess EXCEPT ![s] = [@ EXCEPT !.auth_timeout = FALSE,
                                                        !.is_authenticated = TRUE,
                                                        !.exchange_id = h.exchange_id]]
               /\ add_connection(s, h.exchange_id, sess[s].ip)
               /\ handlers' = [handlers EXCEPT ![s][i] = [@ EXCEPT !.pc = "add_connection"]]
    /\ UNCHANGED <<issuer_vars, delivery_vars, redis_rate, exchanges, frames>>

\* handle_auth resumes after add_connection: the heartbeat is started (one
\* more interval armed, its handle stored in heartbeat_interval) and
\* auth_success is sent.
ResumeAddConnection(s, i) ==
    /\ i \in DOMAIN handlers[s]
    /\ handlers[s][i].pc = "add_connection"
    /\ sess' = [sess EXCEPT ![s] =
                  SocketSend([@ EXCEPT !.heartbeat_interval = TRUE, !.intervals = @ + 1],
                             [type |-> "auth_success", exchange_id |-> sess[s].exchange_id])]
    /\ handlers' = [handlers EXCEPT ![s] = RemoveAt(@, i)]
    /\ UNCHANGED <<issuer_vars, delivery_vars, redis_rate, exchanges, connections, redis_count, redis_ip, redis_set, redis_ttl, frames, acct>>

\* Variant: the message that reaches the limit is denied already.
MessageRateExceeded_ge(count, limit) == count >= limit

\* check_message_rate: the comparison of the minute's count with the limit.
MessageRateExceeded(count, limit) == count > limit

\* socket.on('message') while is_authenticated: handle_message up to the await
\* in check_message_rate: INCR of the key of the socket and the current minute.
StartHandleMessage(s, message) ==
    /\ sess[s].readyState \in {"OPEN", "CLOSING"}
    /\ sess[s].is_authenticated
    /\ LET minute == now \div 60000
           count == IF redis_rate[s].minute = minute THEN redis_rate[s].count + 1 ELSE 1
       IN /\ redis_rate' = [redis_rate EXCEPT ![s] = [minute |-> minute, count |-> count]]
          /\ handlers' = [handlers EXCEPT ![s] =
                Append(@, [pc |-> "rate", type |-> message.type, count |-> count])]
    /\ frames' = [frames EXCEPT ![s] = Append(@, Received(s, Json(message)))]
    /\ UNCHANGED <<issuer_vars, delivery_vars, exchanges, connections, redis_count, redis_ip, redis_set, redis_ttl, sess, acct>>

\* check_message_rate resumes with the reply of INCR: when the count is 1 it
\* awaits redis.client.expire(minute_key, 60) before it goes on.
ResumeIncr(s, i) ==
    /\ i \in DOMAIN handlers[s]
    /\ handlers[s][i].pc = "rate"
    /\ handlers[s][i].count = 1
    /\ handlers' = [handlers EXCEPT ![s][i] = [@ EXCEPT !.pc = "expire"]]
    /\ UNCHANGED <<issuer_vars, delivery_vars, redis_rate, exchanges, connections, redis_count, redis_ip, redis_set, redis_ttl, sess, frames, acct>>

\* handle_message resumes with the count (after the reply of INCR, or of
\* EXPIRE when the count is 1): over the limit the 4006 error is sent and the
\* handler returns; otherwise a ping is answered with a pong and any other
\* type is ignored.
ResumeRate(s, i) ==
    /\ i \in DOMAIN handlers[s]
    /\ IF handlers[s][i].count = 1
       THEN handlers[s][i].pc = "expire"
       ELSE handlers[s][i].pc = "rate"
    /\ LET h == handlers[s][i]
       IN sess' = [sess EXCEPT ![s] =
                     IF MessageRateExceeded(h.count, DEFAULT_LIMITS.messages_per_minute)
                     THEN send_error(@, "message rate limit exceeded", 4006)
                     ELSE IF h.type = "ping"
                     THEN SocketSend(@, [type |-> "pong"])
                     ELSE @]
    /\ handlers' = [handlers EXCEPT ![s] = RemoveAt(@, i)]
    /\ UNCHANGED <<issuer_vars, delivery_vars, redis_rate, exchanges, connections, redis_count, redis_ip, redis_set, redis_ttl, frames, acct>>

\* socket.on('message'): the frame is parsed and handed to handle_auth or to
\* handle_message; a frame that does not parse goes to the catch block.
on_message(s, data) ==
    \/ MessageParseError(s, data)
    \/ ~JSON_parse_throws(data) /\ StartHandleAuth(s, JSON_parse(data))
    \/ ~JSON_parse_throws(data) /\ StartHandleMessage(s, JSON_parse(data))

\* widget_connection_manager.remove_connection: nothing without a registry
\* entry; otherwise the entry is deleted and the MULTI (srem, decr, decr)
\* issued: no EXPIRE, a key DECR creates never expires.
remove_connection(s) ==
    IF s \notin DOMAIN connections
    THEN UNCHANGED <<connections, redis_count, redis_ip, redis_set, redis_ttl, acct>>
    ELSE LET connection == connections[s]
         IN /\ connections' = [k \in DOMAIN connections \ {s} |-> connections[k]]
            /\ redis_set' = [redis_set EXCEPT ![connection.exchange_id] = @ \ {s}]
            /\ redis_count' = [redis_count EXCEPT ![connection.exchange_id] = @ - 1]
            /\ redis_ip' = [redis_ip EXCEPT ![connection.ip] = @ - 1]
            /\ acct' = [acct EXCEPT ![s].decr = @ + 1]
            /\ UNCHANGED redis_ttl

\* socket.on('close'): the socket is closed (by the peer, the network, or the
\* end of a closing handshake the server started); cleanup, then
\* remove_connection when is_authenticated.  cleanup clears the auth timer and
\* the one interval whose handle the closure holds: intervals counts the
\* intervals of the socket that are armed, heartbeat_interval says one is.
CloseEvent(s) ==
    /\ sess[s].readyState \in {"OPEN", "CLOSING"}
    /\ sess' = [sess EXCEPT ![s] =
                  [@ EXCEPT !.readyState = "CLOSED",
                            !.close_code = IF sess[s].readyState = "OPEN" THEN 1000 ELSE @,
                            !.auth_timeout = FALSE,
                            !.intervals = IF @ > 0 THEN @ - 1 ELSE 0,
                            !.heartbeat_interval = sess[s].intervals > 1]]
    /\ IF sess[s].is_authenticated
       THEN remove_connection(s)
       ELSE UNCHANGED <<connections, redis_count, redis_ip, redis_set, redis_ttl, acct>>
    /\ UNCHANGED <<issuer_vars, delivery_vars, redis_rate, exchanges, handlers, frames>>

\* widget_connection_manager.graceful_shutdown: every registered socket is sent
\* the 4009 error and closed, then the registry is cleared.
graceful_shutdown ==
    /\ DOMAIN connections # {}
    /\ sess' = [s \in DOMAIN sess |->
                  IF s \in DOMAIN connections
                  THEN Reject(sess[s], "server shutting down", 4009)
                  ELSE sess[s]]
    /\ connections' = [k \in {} |-> NoEntry]
    /\ UNCHANGED <<issuer_vars, delivery_vars, redis_rate, exchanges, redis_count, redis_ip, redis_set, redis_ttl, handlers, frames, acct>>

\* The sockets a broadcast over the registry entries targets delivers to:
\* those whose readyState is OPEN and whose send does not throw.
Delivered(targets, throws) ==
    {s \in targets : sess[s].readyState = "OPEN" /\ s \notin throws}

\* Mutant: sent counted before the send is tried.
BroadcastSent_before_send(targets, throws) ==
    Cardinality({s \in targets : sess[s].readyState = "OPEN"})

\* let sent = 0; ... conn.socket.send(payload); sent++
BroadcastSent(targets, throws) == Cardinality(Delivered(targets, throws))

\* Mutant: the registry entries not filtered by exchange.
ExchangeTargets_unfiltered(exchange_id) == DOMAIN connections

\* The entries broadcast_to_exchange visits: conn.exchange_id === exchange_id.
ExchangeTargets(exchange_id) ==
    {s \in DOMAIN connections : connections[s].exchange_id = exchange_id}

\* The loop of both broadcasts over the entries targets: per entry a try block
\* with the readyState check, the send and the count; a send that throws (for
\* the sockets in throws) is logged and the loop goes on.
Broadcast(fn, exchange_id, targets, message, throws) ==
    /\ sess' = [s \in DOMAIN sess |->
                  IF s \in Delivered(targets, throws) THEN SocketSend(sess[s], message) ELSE sess[s]]
    /\ broadcasts' = [calls |-> broadcasts.calls + 1, fn |-> fn, exchange_id |-> exchange_id,
                      throws |-> throws, sent |-> BroadcastSent(targets, throws)]
    /\ UNCHANGED <<issuer_vars, client, redis_rate, exchanges, connections, redis_count, redis_ip, redis_set, redis_ttl, handlers, frames, acct>>

\* widget_connection_manager.broadcast_to_all(message)
broadcast_to_all(message, throws) ==
    Broadcast("broadcast_to_all", NoExchange, DOMAIN connections, message, throws)

\* widget_connection_manager.broadcast_to_exchange(exchange_id, message)
broadcast_to_exchange(exchange_id, message, throws) ==
    Broadcast("broadcast_to_exchange", exchange_id, ExchangeTargets(exchange_id), message, throws)

\* The heartbeat interval fires: a ping frame is sent on an open socket.
\* unanswered counts the pings sent since the peer's last pong (up to
\* MaxUnanswered); the gateway itself keeps no such count and has no 'pong'
\* listener.
Heartbeat(s) ==
    /\ sess[s].heartbeat_interval
    /\ sess[s].unanswered < MaxUnanswered
    /\ sess' = [sess EXCEPT ![s] =
                  IF sess[s].readyState = "OPEN" THEN [@ EXCEPT !.unanswered = @ + 1] ELSE @]
    /\ UNCHANGED <<issuer_vars, delivery_vars, redis_rate, exchanges, connections, redis_count, redis_ip, redis_set, redis_ttl, handlers, frames, acct>>

\* The peer answers the pings with a pong frame: ws emits 'pong', which the
\* gateway does not listen to.
PeerPong(s) ==
    /\ sess[s].readyState = "OPEN"
    /\ sess[s].unanswered > 0
    /\ sess' = [sess EXCEPT ![s] = [@ EXCEPT !.unanswered = 0]]
    /\ UNCHANGED <<issuer_vars, delivery_vars, redis_rate, exchanges, connections, redis_count, redis_ip, redis_set, redis_ttl, handlers, frames, acct>>

\* Nothing of the gateway is pending: no handler suspended, no auth timer armed,
\* no closing handshake under way.  Only in such a state can hours pass: what
\* is pending is over within seconds.
Quiescent ==
    \A s \in DOMAIN sess :
        handlers[s] = <<>> /\ ~sess[s].auth_timeout /\ sess[s].readyState # "CLOSING"

\* At time t Redis has deleted key k: add_connection put EXPIRE CONNECTION_TTL
\* on it, and no add_connection has renewed it since.
Expired(k, t) == redis_ttl[k] # 0 /\ redis_ttl[k] <= t

\* The set and the count key of an exchange at time t: deleted together, and
\* a deleted count reads as 0, which DECR takes to -1.
ExpireExchangeKeys(t) ==
    /\ redis_count' = [e \in ExchangeIds |-> IF Expired(e, t) THEN 0 ELSE redis_count[e]]
    /\ redis_set' = [e \in ExchangeIds |-> IF Expired(e, t) THEN {} ELSE redis_set[e]]

\* The count key of an address at time t, in the same way.
ExpireIpKey(t) ==
    redis_ip' = [ip \in Ips |-> IF Expired(ip, t) THEN 0 ELSE redis_ip[ip]]

----------------------------------------------------------------------------
(* models/postgres/widget.js, widget.service.js, widget.controller.js:
   the trade-token issuer.  A JavaScript value that may not be a number is a
   record [t, v]: t is "number" (the integer v), "infinity" (what JSON.parse
   makes of 1e999), "string" (the decimal text of v), "undefined" or "null". *)

TOKEN_EXPIRY_SECONDS == 30

\* Mutant: the lookup without its is_active condition.
get_exchange_config_any(exchange_id) ==
    {e \in DOMAIN exchanges : exchanges[e].exchange_id = exchange_id}

\* get_exchange_config: WHERE exchange_id = $1 AND is_active = true.
get_exchange_config(exchange_id) ==
    {e \in DOMAIN exchanges : exchanges[e].exchange_id = exchange_id /\ exchanges[e].is_active}

\* !value of JavaScript: undefined, null and 0 are falsy; Infinity and a
\* non-empty string are truthy.
Falsy(a) == a.t \in {"undefined", "null"} \/ (a.t = "number" /\ a.v = 0)

\* typeof value === 'number'
IsNumber(a) == a.t \in {"number", "infinity"}

\* value <= 0 for a value that is a number.
NotPositive(a) == a.t = "number" /\ a.v <= 0

\* The three validations of create_signed_token (lines 329-346): the message of
\* the first that fails, "" when trade_params passes.
TradeParamsError(trade_params) ==
    IF trade_params.coin = "" \/ Falsy(trade_params.amount) \/ trade_params.side = ""
    THEN "invalid trade parameters"
    ELSE IF trade_params.side \notin {"long", "short"}
    THEN "side must be long or short"
    ELSE IF ~IsNumber(trade_params.amount) \/ NotPositive(trade_params.amount)
    THEN "amount must be a positive number"
    ELSE ""

\* JSON.stringify of a value: Infinity is written as null.
JsonValue(a) == IF a.t = "infinity" THEN [t |-> "null", v |-> 0] ELSE a

\* trade_params as stored in the JSONB column.
JsonParams(trade_params) == [trade_params EXCEPT !.amount = JsonValue(@)]

NullNews == "null"

\* The JWT payload of create_signed_token (lines 356-366), as serialized.
Payload(trade_id, body, iat, exp) ==
    [trade_id |-> trade_id,
     exchange_id |-> body.exchange_id,
     user_id |-> body.exchange_user_id,
     coin |-> body.trade_params.coin,
     amount |-> JsonValue(body.trade_params.amount),
     side |-> body.trade_params.side,
     news_id |-> IF body.trade_params.news_id = "" THEN NullNews ELSE body.trade_params.news_id,
     iat |-> iat,
     exp |-> exp]

\* The HMAC of a serialized payload under a key: equal exactly for the same
\* payload and the same key.
Sign(payload, key) == [signed |-> payload, key |-> key]

\* jwt.sign(payload, secret)
jwt_sign(payload, key) == [payload |-> payload, sig |-> Sign(payload, key)]

\* Math.floor(Date.now() / 1000)
Seconds(ms) == ms \div 1000

\* Mutant: the signature checked and the exp claim ignored.
jwt_verify_ignores_exp(token, key, ms) ==
    IF token.sig # Sign(token.payload, key) THEN "invalid signature" ELSE ""

\* jwt.verify(token, secret) at clock ms: the error it throws, "" when it returns.
jwt_verify(token, key, ms) ==
    IF token.sig # Sign(token.payload, key) THEN "invalid signature"
    ELSE IF Seconds(ms) >= token.payload.exp THEN "jwt expired"
    ELSE ""

\* verify_trade_token of the exchange backend.
verify_trade_token(token, secret_key, ms) ==
    [valid |-> jwt_verify(token, secret_key, ms) = "", error |-> jwt_verify(token, secret_key, ms)]

\* error_response(res, message, status)
error_response(message, status) ==
    [NoResponse EXCEPT !.status = status, !.error = message]

\* next(error): Express answers an error that carries no status with 500.
next_error == [NoResponse EXCEPT !.status = 500, !.error = "internal server error"]

Respond(r, code, response) ==
    reqs' = [reqs EXCEPT ![r] = [@ EXCEPT !.pc = "done", !.code = code, !.response = response]]

\* widget_controller.generate_trade_token up to the await inside
\* create_signed_token: the required fields, then get_exchange_config is issued.
generate_trade_token(r, body) ==
    /\ reqs[r].pc = "new"
    /\ IF body.exchange_id = ""
       THEN Respond(r, "", error_response("exchange_id is required", 400))
       ELSE IF body.exchange_user_id = ""
       THEN Respond(r, "", error_response("exchange_user_id is required", 400))
       ELSE IF ~body.has_trade_params
       THEN Respond(r, "", error_response("trade_params object is required", 400))
       ELSE reqs' = [reqs EXCEPT ![r] = [@ EXCEPT !.pc = "config", !.body = body]]
    /\ UNCHANGED <<gateway_vars, delivery_vars, widget_trades, uuid, now, verified>>

\* get_exchange_config rejects (the query fails): the error reaches next(error).
get_exchange_config_throws(r) ==
    /\ reqs[r].pc = "config"
    /\ Respond(r, "", next_error)
    /\ UNCHANGED <<gateway_vars, delivery_vars, widget_trades, uuid, now, verified>>

\* create_signed_token resumes with the row of get_exchange_config: the
\* exchange check, the validation of trade_params, then create_trade_log is issued.
ResumeConfig(r) ==
    /\ reqs[r].pc = "config"
    /\ LET body == reqs[r].body
       IN IF get_exchange_config(body.exchange_id) = {}
          THEN Respond(r, "INVALID_EXCHANGE", error_response("invalid or inactive exchange id", 400))
          ELSE IF TradeParamsError(body.trade_params) # ""
          THEN Respond(r, "INVALID_TRADE_PARAMS", error_response(TradeParamsError(body.trade_params), 400))
          ELSE reqs' = [reqs EXCEPT ![r] = [@ EXCEPT !.pc = "insert", !.inserts = @ + 1]]
    /\ UNCHANGED <<gateway_vars, delivery_vars, widget_trades, uuid, now, verified>>

\* Mutant: the failure of the INSERT caught and not rethrown, a trade_id
\* returned all the same.
create_trade_log_swallows(r) ==
    /\ reqs[r].pc = "insert"
    /\ uuid' = uuid + 1
    /\ reqs' = [reqs EXCEPT ![r] = [@ EXCEPT !.pc = "inserted", !.trade_id = uuid + 1]]
    /\ UNCHANGED <<gateway_vars, delivery_vars, widget_trades, now, verified>>

\* create_trade_log rejects (the INSERT fails): nothing is written and the error
\* reaches next(error).
create_trade_log_throws(r) ==
    /\ reqs[r].pc = "insert"
    /\ Respond(r, "", next_error)
    /\ UNCHANGED <<gateway_vars, delivery_vars, widget_trades, uuid, now, verified>>

\* Mutant: the trade_id a constant and not the column's gen_random_uuid().
create_trade_log_same_id(r) ==
    /\ reqs[r].pc = "insert"
    /\ uuid' = uuid + 1
    /\ widget_trades' = widget_trades \cup
          {[trade_id |-> 1,
            exchange_id |-> reqs[r].body.exchange_id,
            exchange_user_id |-> reqs[r].body.exchange_user_id,
            trade_params |-> JsonParams(reqs[r].body.trade_params),
            status |-> "initiated"]}
    /\ reqs' = [reqs EXCEPT ![r] = [@ EXCEPT !.pc = "inserted", !.trade_id = 1]]
    /\ UNCHANGED <<gateway_vars, delivery_vars, now, verified>>

\* create_trade_log: the INSERT commits a row with a fresh trade_id and
\* status 'initiated'.
create_trade_log(r) ==
    /\ reqs[r].pc = "insert"
    /\ uuid' = uuid + 1
    /\ widget_trades' = widget_trades \cup
          {[trade_id |-> uuid + 1,
            exchange_id |-> reqs[r].body.exchange_id,
            exchange_user_id |-> reqs[r].body.exchange_user_id,
            trade_params |-> JsonParams(reqs[r].body.trade_params),
            status |-> "initiated"]}
    /\ reqs' = [reqs EXCEPT ![r] = [@ EXCEPT !.pc = "inserted", !.trade_id = uuid + 1]]
    /\ UNCHANGED <<gateway_vars, delivery_vars, now, verified>>

\* update_trade_status: UPDATE widget_trades SET status = $2 WHERE trade_id = $1.
update_trade_status(trade_id, status) ==
    /\ widget_trades' = {IF row.trade_id = trade_id THEN [row EXCEPT !.status = status] ELSE row :
                            row \in widget_trades}
    /\ UNCHANGED <<gateway_vars, delivery_vars, uuid, reqs, now, verified>>

\* exp of the payload: Date.now() is read again after the read for iat.
ExpiresAt(ms_iat, ms_exp) == Seconds(ms_exp) + TOKEN_EXPIRY_SECONDS

\* Mutant: the token signed with the exchange's public api_key.
SigningKey_api_key(exchange_id) == exchanges[exchange_id].api_key

\* const { secret_signing_key } = exchange_config
SigningKey(exchange_id) == exchanges[exchange_id].secret_signing_key

\* create_signed_token resumes with the trade_id: the payload is built (the
\* clock is read twice and may advance by d in between), signed, and the
\* controller answers with token, trade_id and expires_in.
ResumeTradeLog(r, d) ==
    /\ reqs[r].pc = "inserted"
    /\ now' = now + d
    /\ LET payload == Payload(reqs[r].trade_id, reqs[r].body, Seconds(now), ExpiresAt(now, now + d))
           token == jwt_sign(payload, SigningKey(reqs[r].body.exchange_id))
       IN Respond(r, "", [NoResponse EXCEPT !.status = 200, !.success = TRUE,
                                            !.data = {[token |-> token,
                                                       trade_id |-> reqs[r].trade_id,
                                                       expires_in |-> TOKEN_EXPIRY_SECONDS]},
                                            !.tokens = {token},
                                            !.trade_id = reqs[r].trade_id,
                                            !.expires_in = TOKEN_EXPIRY_SECONDS])
    /\ UNCHANGED <<gateway_vars, delivery_vars, widget_trades, uuid, verified>>

\* Time passes, and Redis deletes the keys whose expiry is reached.
Tick(d) ==
    /\ now' = now + d
    /\ ExpireExchangeKeys(now + d)
    /\ ExpireIpKey(now + d)
    /\ redis_ttl' = [k \in DOMAIN redis_ttl |-> IF Expired(k, now + d) THEN 0 ELSE redis_ttl[k]]
    /\ UNCHANGED <<exchanges, connections, sess, handlers, frames, redis_rate, acct>>
    /\ UNCHANGED <<delivery_vars, widget_trades, uuid, reqs, verified>>

\* The tokens handed to callers so far.
IssuedTokens == UNION {reqs[r].response.tokens : r \in DOMAIN reqs}

\* /api/execute-trade of the exchange backend: a token is presented and
\* verified with the key the backend holds.
ExecuteTrade(issued, presented, secret_key) ==
    /\ verified' = {[issued |-> issued, token |-> presented, key |-> secret_key, at |-> now,
                     result |-> verify_trade_token(presented, secret_key, now)]}
    /\ UNCHANGED <<gateway_vars, delivery_vars, widget_trades, uuid, reqs, now>>

\* Mutant: the service handing on the whole row of the exchange.
get_config_whole_row(exchange_config) == exchange_config

\* widget_service.get_config on a row that was found: only the public
\* configuration is returned.
get_config(exchange_config) ==
    [exchange_id |-> exchange_config.exchange_id,
     display_name |-> exchange_config.display_name,
     theme_config |-> exchange_config.theme_config,
     feature_flags |-> exchange_config.feature_flags]

\* widget_controller.get_config up to the await inside widget_service.get_config:
\* the id query parameter, then get_exchange_config is issued.
controller_get_config(r, id) ==
    /\ reqs[r].pc = "new"
    /\ reqs' = [reqs EXCEPT ![r] =
                  IF id = ""
                  THEN [@ EXCEPT !.route = "config", !.pc = "done",
                                 !.response = error_response("exchange id query parameter is required", 400)]
                  ELSE [@ EXCEPT !.route = "config", !.pc = "get_config",
                                 !.body = [NoBody EXCEPT !.exchange_id = id]]]
    /\ UNCHANGED <<gateway_vars, delivery_vars, widget_trades, uuid, now, verified>>

\* get_exchange_config rejects inside widget_service.get_config: next(error).
get_config_throws(r) ==
    /\ reqs[r].pc = "get_config"
    /\ Respond(r, "", next_error)
    /\ UNCHANGED <<gateway_vars, delivery_vars, widget_trades, uuid, now, verified>>

\* widget_service.get_config resumes with the row and the controller answers:
\* 404 when there is no active row, else the public configuration.
ResumeGetConfig(r) ==
    /\ reqs[r].pc = "get_config"
    /\ LET rows == get_exchange_config(reqs[r].body.exchange_id)
       IN IF rows = {}
          THEN Respond(r, "", error_response("exchange not found", 404))
          ELSE Respond(r, "", [NoResponse EXCEPT !.status = 200, !.success = TRUE,
                                                 !.data = {get_config(exchanges[CHOOSE e \in rows : TRUE])}])
    /\ UNCHANGED <<gateway_vars, delivery_vars, widget_trades, uuid, now, verified>>

----------------------------------------------------------------------------
(* src/services/websocket_service.ts: the WebSocketService of the widget.
   client.socket is the number of the socket the service created last, which
   is also its number at the gateway; the news store is reduced to its
   connection status (is_connected). *)

max_reconnect_attempts == 5

reconnect_delay == 1000

\* Math.pow(2, n)
RECURSIVE Pow2(_)
Pow2(n) == IF n = 0 THEN 1 ELSE 2 * Pow2(n - 1)

\* start_ping_interval: a new interval is armed and its handle stored; an
\* interval whose handle was stored before stays armed.
start_ping_interval(c) == [c EXCEPT !.ping_interval = TRUE, !.intervals = @ + 1]

\* stop_ping_interval: the interval whose handle is stored is cleared.
stop_ping_interval(c) ==
    IF c.ping_interval
    THEN [c EXCEPT !.ping_interval = FALSE, !.intervals = @ - 1]
    ELSE c

\* The sockets the service does not hold any more, after this.socket is
\* assigned anew: the socket held before joins them unless it is closed.
Replaced(c) ==
    IF c.state \in {"CONNECTING", "OPEN", "CLOSING"}
    THEN [n \in DOMAIN c.others \cup {c.socket} |->
             IF n = c.socket
             THEN [state |-> c.state, read |-> c.read, established |-> c.established]
             ELSE c.others[n]]
    ELSE c.others

\* establish_connection: nothing without a config, else a new WebSocket.
establish_connection(c) ==
    IF ~c.has_config THEN c
    ELSE [c EXCEPT !.socket = c.opened + 1, !.opened = @ + 1, !.state = "CONNECTING",
                   !.read = 0, !.established = FALSE,
                   !.sent = Append(@, <<>>), !.others = Replaced(c)]

\* connect(config)
connect(api_key) ==
    /\ client' = establish_connection([client EXCEPT !.has_config = TRUE, !.api_key = api_key])
    /\ UNCHANGED <<gateway_vars, issuer_vars, broadcasts>>

\* this.socket.send(data): the frame leaves on the socket the service holds
\* when that is OPEN; on a closing or closed socket it is dropped.
socket_send(c, data) ==
    IF c.state = "OPEN" THEN [c EXCEPT !.sent[c.socket] = Append(@, data)] ELSE c

\* send_auth_message: nothing without socket and config; else the auth frame
\* with the api_key of the config as it is now.
send_auth_message(c) ==
    IF ~c.has_config THEN c
    ELSE socket_send(c, Json([type |-> "auth", api_key |-> c.api_key]))

\* The handler assigned to onopen: send_auth_message (this.socket.send throws
\* while this.socket is CONNECTING, which ends the handler),
\* start_ping_interval, reconnect_attempts = 0.
onopen_handler(c) ==
    IF c.has_config /\ c.state = "CONNECTING"
    THEN c
    ELSE start_ping_interval([send_auth_message(c) EXCEPT !.reconnect_attempts = 0])

\* socket.onopen of the socket the service holds.
onopen ==
    /\ client.state = "CONNECTING"
    /\ sess[client.socket].readyState = "OPEN"
    /\ client' = onopen_handler([client EXCEPT !.state = "OPEN", !.established = TRUE])
    /\ UNCHANGED <<gateway_vars, issuer_vars, broadcasts>>

\* socket.onopen of a socket the service created and holds no more.
orphan_onopen(n) ==
    /\ n \in DOMAIN client.others
    /\ client.others[n].state = "CONNECTING"
    /\ sess[n].readyState = "OPEN"
    /\ client' = onopen_handler([client EXCEPT !.others[n].state = "OPEN",
                                                !.others[n].established = TRUE])
    /\ UNCHANGED <<gateway_vars, issuer_vars, broadcasts>>

\* handle_message: 'authorized' sets the connection status and calls on_open
\* of the config (this.config?.on_open?.(): nothing without a config);
\* the other branches feed the news store; any other message is dropped.
handle_message(c, message) ==
    IF message.type = "authorized"
    THEN [c EXCEPT !.is_connected = TRUE, !.on_open = IF c.has_config THEN @ + 1 ELSE @]
    ELSE c

\* socket.onmessage of socket n, which the service holds or created and holds
\* no more (every socket keeps the handler assigned in establish_connection),
\* with event.data = message; read counts the messages read from the socket.
onmessage(n, message) ==
    /\ IF n = client.socket
       THEN client.state = "OPEN"
       ELSE n \in DOMAIN client.others /\ client.others[n].state = "OPEN"
    /\ client' = IF n = client.socket
                 THEN [handle_message(client, message) EXCEPT !.read = @ + 1]
                 ELSE [handle_message(client, message) EXCEPT !.others[n].read = @ + 1]
    /\ UNCHANGED <<gateway_vars, issuer_vars, broadcasts>>

\* schedule_reconnect: reconnect_attempts++, and a timer that calls
\* establish_connection after reconnect_delay * 2^(reconnect_attempts - 1);
\* reconnect_timer counts the timers that have not fired.
schedule_reconnect(c) ==
    LET attempts == c.reconnect_attempts + 1
        delay == reconnect_delay * Pow2(attempts - 1)
    IN [c EXCEPT !.reconnect_attempts = attempts, !.reconnect_timer = @ + 1,
                 !.delays = Append(@, delay)]

\* The handler assigned to onclose, with event.code = code.
onclose_handler(c, code) ==
    LET d == [stop_ping_interval(c) EXCEPT !.is_connected = FALSE, !.close_code = code]
    IN IF code # 1000 /\ d.reconnect_attempts < max_reconnect_attempts
       THEN schedule_reconnect(d)
       ELSE d

\* socket.onclose of the socket the service holds (or held until disconnect).
onclose(code) ==
    /\ client.state \in {"CONNECTING", "OPEN", "CLOSING"}
    /\ client' = onclose_handler([client EXCEPT !.state = "CLOSED"], code)
    /\ UNCHANGED <<gateway_vars, issuer_vars, broadcasts>>

\* socket.onclose of a socket the service created and holds no more.
orphan_onclose(n, code) ==
    /\ n \in DOMAIN client.others
    /\ client' = onclose_handler(
                    [client EXCEPT !.others = [k \in DOMAIN client.others \ {n} |-> client.others[k]]],
                    code)
    /\ UNCHANGED <<gateway_vars, issuer_vars, broadcasts>>

\* A timer of schedule_reconnect fires; disconnect() clears none.
ReconnectTimeout ==
    /\ client.reconnect_timer > 0
    /\ client' = establish_connection([client EXCEPT !.reconnect_timer = @ - 1])
    /\ UNCHANGED <<gateway_vars, issuer_vars, broadcasts>>

\* The callback of a ping interval that is armed: the text 'ping' is sent on
\* the socket the service holds when that is OPEN.
ping_interval_callback ==
    /\ client.intervals > 0
    /\ client.state = "OPEN"
    /\ client' = socket_send(client, Text("ping"))
    /\ UNCHANGED <<gateway_vars, issuer_vars, broadcasts>>

\* A frame the service sent on socket s reaches the gateway: the frames of a
\* socket arrive in the order sent, also after the service has closed or
\* dropped the socket, until the gateway has seen the close.
ClientFrame(s) ==
    /\ s \in DOMAIN client.sent
    /\ Len(frames[s]) < Len(client.sent[s])
    /\ on_message(s, client.sent[s][Len(frames[s]) + 1])

\* The codes the close event of a socket of the service may carry; peer holds
\* the code of the server's Close frame when the server has closed the
\* socket.  A socket that never opened fails (1006), close() called or not.
\* An open socket is closed by the server (its code) or lost (1006).  After
\* close() on an open socket the event carries 1000 when the closing
\* handshake ends, the server's code when the server's Close frame came
\* first, 1006 when the connection is lost before.
CloseCodes(state, established, peer) ==
    IF ~established THEN {1006}
    ELSE IF state = "CLOSING" THEN {1000, 1006} \cup peer
    ELSE {1006} \cup peer

\* disconnect(): stop_ping_interval, the socket is closed with 1000 and
\* dropped, the config dropped, reconnect_attempts = 0; a held socket that is
\* closed or closing stays as it is.
disconnect ==
    /\ client' = [stop_ping_interval(client) EXCEPT
                     !.state = IF @ \in {"CONNECTING", "OPEN"} THEN "CLOSING" ELSE @,
                     !.has_config = FALSE, !.api_key = "",
                     !.reconnect_attempts = 0]
    /\ UNCHANGED <<gateway_vars, issuer_vars, broadcasts>>

----------------------------------------------------------------------------
(* Specifications of the gateway *)

\* First frames a client may send: the key of acme, of the disabled zeta, an
\* unknown key, and a frame that is no auth request.
AuthMessages ==
    {[type |-> "auth", api_key |-> "wk_1"], [type |-> "auth", api_key |-> "wk_2"],
     [type |-> "auth", api_key |-> "wk_x"], [type |-> "ping", api_key |-> ""]}

\* The connection keys a caller may hold: that of acme, that of the disabled
\* zeta, and one no row carries.
WireKeys == {"wk_1", "wk_2", "wk_x"}

\* One authentication attempt per socket: the client sends its auth message once.
FirstMessage(s) == frames[s] = <<>>

HandlerStep(s) ==
    \E i \in DOMAIN handlers[s] :
        \/ ResumeLookup(s, i)
        \/ ResumeExchangeCount(s, i)
        \/ ResumeIpCount(s, i)
        \/ ResumeAddConnection(s, i)

\* The sockets numbered before s.
Earlier(s) == {t \in DOMAIN sess : t < s}

\* The socket has sent its first frame and no handler of it is suspended.
Decided(s) == frames[s] # <<>> /\ handlers[s] = <<>>

\* Every socket connected so far has finished its authentication attempt.
AllSettled == \A s \in DOMAIN sess : handlers[s] = <<>>

(* Spec: the gateway with every event: connections from two addresses, a
   valid or an unknown connection key, the auth timeout, closes and the
   server's shutdown. *)
Next ==
    \/ \E s \in DOMAIN sess, ip \in Ips : Connection(s, ip, "")
    \/ \E s \in DOMAIN sess, m \in AuthMessages : FirstMessage(s) /\ StartHandleAuth(s, m)
    \/ \E s \in DOMAIN sess : FirstMessage(s) /\ MessageParseError(s, Text("ping"))
    \/ \E s \in DOMAIN sess : HandlerStep(s)
    \/ \E s \in DOMAIN sess : AuthTimeout(s)
    \/ \E s \in DOMAIN sess : CloseEvent(s)
    \/ graceful_shutdown

Spec == Init /\ [][Next]_vars

(* SpecCycles: authenticate-then-disconnect cycles of one tenant, the server
   never shutting down. *)
NextCycles ==
    \/ \E s \in DOMAIN sess, ip \in Ips : Connection(s, ip, "")
    \/ \E s \in DOMAIN sess : FirstMessage(s) /\ StartHandleAuth(s, [type |-> "auth", api_key |-> "wk_1"])
    \/ \E s \in DOMAIN sess : HandlerStep(s)
    \/ \E s \in DOMAIN sess : AuthTimeout(s)
    \/ \E s \in DOMAIN sess : CloseEvent(s)

SpecCycles == Init /\ [][NextCycles]_vars

(* SpecTtl: the cycles of SpecCycles on a gateway that stays up for longer
   than CONNECTION_TTL.  Hours pass while nothing is pending (TtlLong, short
   of CONNECTION_TTL by TtlEarly), and then TtlShort whatever the sockets are
   doing: the keys of connection accounting expire CONNECTION_TTL after the
   last add_connection, while sockets are open, handlers suspended or auth
   timers armed. *)
TtlLong == CONNECTION_TTL * 1000 - TtlEarly

NextTtl ==
    \/ NextCycles
    \/ /\ Quiescent
       /\ now < MaxTtlDays * (TtlLong + TtlShort)
       /\ now % (TtlLong + TtlShort) = 0
       /\ Tick(TtlLong)
    \/ now % (TtlLong + TtlShort) = TtlLong /\ Tick(TtlShort)

SpecTtl == Init /\ [][NextTtl]_vars

\* The 'close' event of a socket the server has closed: the closing handshake
\* ends, or ws destroys the socket when its close timer runs out.
CloseAfterServerClose(s) == sess[s].readyState = "CLOSING" /\ CloseEvent(s)

(* SpecTimeout: sessions of one address that stay silent, leave, or
   authenticate for acme, under the scheduling of the event loop: an armed
   auth timer fires, and a socket the server closed gets its 'close' event. *)
NextTimeout ==
    \/ \E s \in DOMAIN sess : Connection(s, "10.0.0.1", "")
    \/ \E s \in DOMAIN sess : FirstMessage(s) /\ StartHandleAuth(s, [type |-> "auth", api_key |-> "wk_1"])
    \/ \E s \in DOMAIN sess : HandlerStep(s)
    \/ \E s \in DOMAIN sess : AuthTimeout(s)
    \/ \E s \in DOMAIN sess : CloseEvent(s)

SpecTimeout ==
    /\ Init
    /\ [][NextTimeout]_vars
    /\ \A s \in 1..NumSessions : WF_vars(AuthTimeout(s)) /\ WF_vars(CloseAfterServerClose(s))

(* SpecHeartbeat: SpecTimeout with the heartbeat: the interval of an
   authenticated session fires, and the peer answers its pings or does not.
   The timers and the handlers of the server are scheduled fairly; nothing
   obliges the peer to answer or to close. *)
NextHeartbeat ==
    \/ NextTimeout
    \/ \E s \in DOMAIN sess : Heartbeat(s)
    \/ \E s \in DOMAIN sess : PeerPong(s)

SpecHeartbeat ==
    /\ Init
    /\ [][NextHeartbeat]_vars
    /\ \A s \in 1..NumSessions :
          /\ WF_vars(AuthTimeout(s))
          /\ WF_vars(CloseAfterServerClose(s))
          /\ WF_vars(HandlerStep(s))
          /\ WF_vars(Heartbeat(s))

\* The event of the next broadcast: a news item, numbered by the call.
NewsEvent == [type |-> "news", _id |-> broadcasts.calls + 1, title |-> "headline"]

(* SpecBroadcast: acme and zeta are both active; NumSessions sockets connect
   one after another, authenticate for one or the other and close at any
   time, also while their authentication is suspended; up to MaxBroadcasts
   events are broadcast to all or to one exchange, the send throwing for any
   of the sockets addressed. *)
InitBroadcast ==
    /\ GatewayInitRows(NumSessions, [e \in ExchangeIds |->
                                       [ExchangeRows(NumSessions)[e] EXCEPT !.is_active = TRUE]])
    /\ IssuerInit(0)
    /\ DeliveryInit

NextBroadcast ==
    \/ \E s \in DOMAIN sess :
          /\ \A t \in Earlier(s) : Decided(t)
          /\ Connection(s, "10.0.0.1", "")
    \/ \E s \in DOMAIN sess, k \in {"wk_1", "wk_2"} :
          FirstMessage(s) /\ StartHandleAuth(s, [type |-> "auth", api_key |-> k])
    \/ \E s \in DOMAIN sess : HandlerStep(s)
    \/ \E s \in DOMAIN sess : CloseEvent(s)
    \/ \E throws \in SUBSET DOMAIN connections :
          broadcasts.calls < MaxBroadcasts /\ broadcast_to_all(NewsEvent, throws)
    \/ \E e \in ExchangeIds :
          \E throws \in SUBSET ExchangeTargets(e) :
              broadcasts.calls < MaxBroadcasts /\ broadcast_to_exchange(e, NewsEvent, throws)

SpecBroadcast == InitBroadcast /\ [][NextBroadcast]_vars

\* The 'ping' frames the service has sent.
SentPings ==
    UNION {{<<n, k>> : k \in {j \in DOMAIN client.sent[n] : client.sent[n][j] = Text("ping")}} :
             n \in DOMAIN client.sent}

\* The client's socket number while that socket is connecting or open.
ClientSocket == IF client.state \in {"CONNECTING", "OPEN"} THEN {client.socket} ELSE {}

\* The code of the gateway's Close frame on socket n as the service gets it:
\* the gateway has called socket.close, and an open socket has read every
\* message the gateway sent before.
GatewayClose(n) ==
    IF /\ n \in DOMAIN sess
       /\ sess[n].readyState \in {"CLOSING", "CLOSED"}
       /\ client.state = "OPEN" => client.read = Len(sess[n].outbox)
    THEN {sess[n].close_code}
    ELSE {}

(* SpecClient: the widget's WebSocketService against the gateway.  The host
   page calls connect with the key of acme, of the disabled zeta or an unknown
   key, and may call disconnect at any time; the service creates up to
   ClientSockets sockets.  The gateway accepts the socket, gets the frames the
   service has sent on it (the auth frame of onopen, then the 'ping' frames
   of the ping interval, up to ClientPings in all) and answers as in Spec.
   The connection of a socket may fail or be lost at any time (close code
   1006 at the client); the close event of a socket the gateway closed
   carries the gateway's code, that of a socket closed by disconnect() 1000,
   the gateway's code or 1006.  A reconnect timer fires at any time, also
   before the gateway has seen the earlier sockets close.  The gateway
   accepts the first GatewaySockets sockets of the service; the later ones
   fail to connect. *)
InitClient == GatewayInit(ClientSockets, ClientSockets) /\ IssuerInit(0) /\ DeliveryInit

NextClient ==
    \/ \E k \in WireKeys : client.opened = 0 /\ connect(k)
    \/ onopen
    \/ \E s \in ClientSocket :
          /\ client.read < Len(sess[s].outbox)
          /\ onmessage(s, sess[s].outbox[client.read + 1])
    \/ \E code \in CloseCodes(client.state, client.established, GatewayClose(client.socket)) :
          onclose(code)
    \/ client.opened < ClientSockets /\ ReconnectTimeout
    \/ disconnect
    \/ Cardinality(SentPings) < ClientPings /\ ping_interval_callback
    \/ \E s \in ClientSocket : s <= GatewaySockets /\ Connection(s, "10.0.0.1", "https://a.example")
    \/ \E s \in DOMAIN sess : ClientFrame(s)
    \/ \E s \in DOMAIN sess : HandlerStep(s)
    \/ \E s \in DOMAIN sess : s \notin ClientSocket /\ CloseEvent(s)
    \/ \E s \in DOMAIN sess : CloseAfterServerClose(s)

SpecClient == InitClient /\ [][NextClient]_vars

\* The sockets the service created that are connecting or open at the client.
LiveSockets ==
    ClientSocket \cup {n \in DOMAIN client.others : client.others[n].state \in {"CONNECTING", "OPEN"}}

\* Messages a server sends to the service: the acknowledgment the service
\* knows, and one it drops.
PeerMessages == {[type |-> "authorized"], [type |-> "pong"]}

\* The code of the Close frame of a server that closes a socket: the
\* gateway's after its authentication timeout.
PeerCloseCodes == {4001}

\* The number of messages read from socket n of the service.
ReadFrom(n) == IF n = client.socket THEN client.read ELSE client.others[n].read

(* SpecReconnect: the host page calls connect and disconnect at any time,
   connect also while the service has a config; the service creates up to
   ReconnectSockets sockets.  The server accepts a socket or the connection
   attempt fails (close code 1006 at the client), sends up to MaxPeerMessages
   messages on a socket that is open and closes an open socket with 4001 at
   any time; a socket closed by disconnect() gets its close event with 1000,
   the server's code or 1006.  The timers of schedule_reconnect fire at any
   time. *)
InitReconnect == GatewayInit(ReconnectSockets, ReconnectSockets) /\ IssuerInit(0) /\ DeliveryInit

NextReconnect ==
    \/ client.opened < ReconnectSockets /\ connect("wk_1")
    \/ disconnect
    \/ onopen
    \/ \E n \in DOMAIN client.others : orphan_onopen(n)
    \/ \E n \in LiveSockets, message \in PeerMessages :
          ReadFrom(n) < MaxPeerMessages /\ onmessage(n, message)
    \/ \E code \in CloseCodes(client.state, client.established, PeerCloseCodes) : onclose(code)
    \/ \E n \in DOMAIN client.others :
          \E code \in CloseCodes(client.others[n].state, client.others[n].established, PeerCloseCodes) :
              orphan_onclose(n, code)
    \/ client.opened < ReconnectSockets /\ ReconnectTimeout
    \/ \E s \in LiveSockets : Connection(s, "10.0.0.1", "https://a.example")

SpecReconnect == InitReconnect /\ [][NextReconnect]_vars

\* The first frames of SpecAuth: those of AuthMessages and an auth request
\* without a key.
AuthFrames == AuthMessages \cup {[type |-> "auth", api_key |-> ""]}

Origins == {"", "https://a.example", "https://b.example"}

\* The connections an address holds when it is at max_connections_per_ip.
Held == DEFAULT_LIMITS.max_connections_per_ip

\* A socket of 10.0.0.2 that has authenticated for acme and is open.
HeldSession ==
    [NewSession EXCEPT !.readyState = "OPEN", !.ip = "10.0.0.2", !.exchange_id = "acme",
                       !.is_authenticated = TRUE, !.heartbeat_interval = TRUE, !.intervals = 1,
                       !.outbox = <<[type |-> "auth_success", exchange_id |-> "acme"]>>]

\* The sockets of SpecAuth that connect and authenticate.
Fresh == {s \in DOMAIN sess : s > Held}

(* SpecAuth: AuthSessions sockets connect from either address, with or
   without an origin, and send one first frame.  The gateway is either empty
   or holds Held authenticated connections of 10.0.0.2 for acme (sockets
   1..Held, which stay as they are); acme's connection limit is Held or
   Held + 1, and the tenants have an origin allow-list or none. *)
InitAuth ==
    \E allowed_origins \in {{}, {"https://a.example"}}, limit \in {Held, Held + 1}, held \in {0, Held} :
        /\ exchanges = [e \in ExchangeIds |->
                          [ExchangeRows(limit)[e] EXCEPT !.allowed_origins = allowed_origins]]
        /\ connections = [k \in 1..held |-> [exchange_id |-> "acme", ip |-> "10.0.0.2"]]
        /\ redis_count = [e \in ExchangeIds |-> IF e = "acme" THEN held ELSE 0]
        /\ redis_ip = [i \in Ips |-> IF i = "10.0.0.2" THEN held ELSE 0]
        /\ redis_set = [e \in ExchangeIds |-> IF e = "acme" THEN 1..held ELSE {}]
        /\ redis_ttl = [k \in ExchangeIds \cup Ips |->
                          IF held > 0 /\ k \in {"acme", "10.0.0.2"} THEN CONNECTION_TTL * 1000 ELSE 0]
        /\ sess = [s \in 1..(Held + AuthSessions) |-> IF s <= held THEN HeldSession ELSE NewSession]
        /\ handlers = [s \in 1..(Held + AuthSessions) |-> <<>>]
        /\ frames = [s \in 1..(Held + AuthSessions) |->
                       IF s <= held
                       THEN <<[data |-> Json([type |-> "auth", api_key |-> "wk_1"]),
                               is_authenticated |-> FALSE, at |-> 0]>>
                       ELSE <<>>]
        /\ redis_rate = [s \in 1..(Held + AuthSessions) |-> [minute |-> 0, count |-> 0]]
        /\ acct = [s \in 1..(Held + AuthSessions) |-> [incr |-> IF s <= held THEN 1 ELSE 0, decr |-> 0]]
        /\ IssuerInit(0)
        /\ DeliveryInit

NextAuth ==
    \/ \E s \in Fresh, ip \in Ips, origin \in Origins : Connection(s, ip, origin)
    \/ \E s \in Fresh, m \in AuthFrames : FirstMessage(s) /\ StartHandleAuth(s, m)
    \/ \E s \in Fresh : HandlerStep(s)
    \/ \E s \in Fresh : AuthTimeout(s)

SpecAuth == InitAuth /\ [][NextAuth]_vars

\* The handlers of handle_message that are suspended resume.
MessageStep(s) == \E i \in DOMAIN handlers[s] : ResumeIncr(s, i) \/ ResumeRate(s, i)

Ping == [type |-> "ping", api_key |-> ""]

(* SpecRate: MessageSessions sockets authenticate for acme and then send
   {type: 'ping'} frames within one minute, one more than messages_per_minute,
   at most MaxInFlight of a socket being handled at a time. *)
InitRate == GatewayInit(MessageSessions, MessageSessions) /\ IssuerInit(0) /\ DeliveryInit

NextRate ==
    \/ \E s \in DOMAIN sess : Connection(s, "10.0.0.1", "")
    \/ \E s \in DOMAIN sess : FirstMessage(s) /\ StartHandleAuth(s, [type |-> "auth", api_key |-> "wk_1"])
    \/ \E s \in DOMAIN sess : HandlerStep(s)
    \/ \E s \in DOMAIN sess :
          /\ Len(frames[s]) <= DEFAULT_LIMITS.messages_per_minute + 1
          /\ Len(handlers[s]) < MaxInFlight
          /\ StartHandleMessage(s, Ping)
    \/ \E s \in DOMAIN sess : MessageStep(s)

SpecRate == InitRate /\ [][NextRate]_vars

(* SpecTenantRate: the sockets of SpecRate on a gateway whose tenants are
   configured with rate_limit_messages_per_minute = TenantRate; each socket
   sends TenantRate + 1 messages within one minute, and may close. *)
InitTenantRate ==
    /\ GatewayInitRows(MessageSessions,
                       [e \in ExchangeIds |->
                           [ExchangeRows(MessageSessions)[e] EXCEPT
                               !.rate_limit_messages_per_minute = TenantRate]])
    /\ IssuerInit(0)
    /\ DeliveryInit

NextTenantRate ==
    \/ \E s \in DOMAIN sess, ip \in Ips : Connection(s, ip, "")
    \/ \E s \in DOMAIN sess : FirstMessage(s) /\ StartHandleAuth(s, [type |-> "auth", api_key |-> "wk_1"])
    \/ \E s \in DOMAIN sess : HandlerStep(s)
    \/ \E s \in DOMAIN sess :
          /\ Len(frames[s]) <= TenantRate + 1
          /\ Len(handlers[s]) < MaxInFlight
          /\ \E m \in {Ping, [type |-> "subscribe", api_key |-> ""]} : StartHandleMessage(s, m)
    \/ \E s \in DOMAIN sess : MessageStep(s)
    \/ \E s \in DOMAIN sess : CloseEvent(s)

SpecTenantRate == InitTenantRate /\ [][NextTenantRate]_vars

\* The sockets of SpecTenants: those of acme's clients, at 10.0.0.1, and those
\* of zeta's clients, at 10.0.0.2.
ASockets == 1..TenantASessions
BSockets == (TenantASessions + 1)..(TenantASessions + TenantBSessions)

(* SpecTenants: both tenants are active with a connection limit of ConnLimit.
   acme's sockets connect from 10.0.0.1 and authenticate one after the other,
   and each sends TenantPings pings, one after the answer to the one before;
   zeta's sockets connect from 10.0.0.2, authenticate, ping and close at any
   time in between. *)
InitTenants ==
    /\ GatewayInitRows(TenantASessions + TenantBSessions,
                       [e \in ExchangeIds |-> [ExchangeRows(ConnLimit)[e] EXCEPT !.is_active = TRUE]])
    /\ IssuerInit(0)
    /\ DeliveryInit

NextTenants ==
    \/ \E s \in ASockets :
          /\ \A t \in Earlier(s) : Decided(t)
          /\ Connection(s, "10.0.0.1", "")
    \/ \E s \in ASockets : FirstMessage(s) /\ StartHandleAuth(s, [type |-> "auth", api_key |-> "wk_1"])
    \/ \E s \in ASockets :
          /\ handlers[s] = <<>>
          /\ Len(frames[s]) <= TenantPings
          /\ StartHandleMessage(s, Ping)
    \/ \E s \in BSockets : Connection(s, "10.0.0.2", "")
    \/ \E s \in BSockets : FirstMessage(s) /\ StartHandleAuth(s, [type |-> "auth", api_key |-> "wk_2"])
    \/ \E s \in BSockets :
          /\ handlers[s] = <<>>
          /\ Len(frames[s]) <= TenantPings
          /\ StartHandleMessage(s, Ping)
    \/ \E s \in BSockets : CloseEvent(s)
    \/ \E s \in DOMAIN sess : HandlerStep(s)
    \/ \E s \in DOMAIN sess : MessageStep(s)

SpecTenants == InitTenants /\ [][NextTenants]_vars

\* The messages the socket has sent in the minute that is running.
InBucket(s) ==
    Cardinality({k \in DOMAIN frames[s] :
                    /\ frames[s][k].is_authenticated
                    /\ frames[s][k].at \div 60000 = now \div 60000})

\* The most messages a socket of SpecWindow sends in one minute.
WindowLoad == DEFAULT_LIMITS.messages_per_minute + WindowExtra

(* SpecWindow: MessageSessions sockets authenticate for acme one after the
   other and then send pings, each after the answer to the one before, a
   socket up to WindowLoad of them in a minute and the next socket after the
   one before has sent its load; the clock moves to the next minute when every socket has sent
   none, messages_per_minute or WindowLoad messages in the running one. *)
NextWindow ==
    \/ \E s \in DOMAIN sess :
          (\A t \in Earlier(s) : Decided(t)) /\ Connection(s, "10.0.0.1", "")
    \/ \E s \in DOMAIN sess : FirstMessage(s) /\ StartHandleAuth(s, [type |-> "auth", api_key |-> "wk_1"])
    \/ \E s \in DOMAIN sess : HandlerStep(s)
    \/ \E s \in DOMAIN sess :
          /\ \A t \in DOMAIN sess : Decided(t) \/ t = s
          /\ InBucket(s) < WindowLoad
          /\ \A t \in Earlier(s) : InBucket(t) = WindowLoad
          /\ handlers[s] = <<>>
          /\ StartHandleMessage(s, Ping)
    \/ \E s \in DOMAIN sess : MessageStep(s)
    \/ /\ now < MaxMinutes * 60000
       /\ \A s \in DOMAIN sess :
             /\ Decided(s)
             /\ InBucket(s) \in {0, DEFAULT_LIMITS.messages_per_minute, WindowLoad}
       /\ Tick(60000)

SpecWindow == InitRate /\ [][NextWindow]_vars

\* The frames of SpecSession: the auth request, the JSON ping, the bare ping
\* and text that is no JSON.
SessionFrames ==
    {Json([type |-> "auth", api_key |-> "wk_1"]), Json(Ping), Text("ping"), Text("garbage")}

(* SpecSession: MessageSessions sockets connect and send up to MaxFrames
   frames each, in any order, the next frame not waiting for the handler of
   the one before; a socket closes at any time. *)
NextSession ==
    \/ \E s \in DOMAIN sess, ip \in Ips : Connection(s, ip, "")
    \/ \E s \in DOMAIN sess, data \in SessionFrames :
          Len(frames[s]) < MaxFrames /\ on_message(s, data)
    \/ \E s \in DOMAIN sess : HandlerStep(s)
    \/ \E s \in DOMAIN sess : MessageStep(s)
    \/ \E s \in DOMAIN sess : CloseEvent(s)

SpecSession == InitRate /\ [][NextSession]_vars

(* SpecSimul: SimulLimit + 1 sockets authenticate for acme, whose limit is
   SimulLimit, at the same time; nobody disconnects. *)
InitSimul == GatewayInit(SimulLimit + 1, SimulLimit) /\ IssuerInit(0) /\ DeliveryInit

NextSimul ==
    \/ \E s \in DOMAIN sess, ip \in Ips : Connection(s, ip, "")
    \/ \E s \in DOMAIN sess : FirstMessage(s) /\ StartHandleAuth(s, [type |-> "auth", api_key |-> "wk_1"])
    \/ \E s \in DOMAIN sess : HandlerStep(s)

SpecSimul == InitSimul /\ [][NextSimul]_vars

(* SpecSeq: SeqLimit + 1 connection attempts for acme, whose limit is
   SeqLimit, one after another: a socket connects once every earlier one has
   finished authenticating; nobody disconnects. *)
InitSeq == GatewayInit(SeqLimit + 1, SeqLimit) /\ IssuerInit(0) /\ DeliveryInit

NextSeq ==
    \/ \E s \in DOMAIN sess, ip \in Ips :
          /\ \A t \in Earlier(s) : frames[t] # <<>>
          /\ AllSettled
          /\ Connection(s, ip, "")
    \/ \E s \in DOMAIN sess : FirstMessage(s) /\ StartHandleAuth(s, [type |-> "auth", api_key |-> "wk_1"])
    \/ \E s \in DOMAIN sess : HandlerStep(s)

SpecSeq == InitSeq /\ [][NextSeq]_vars

----------------------------------------------------------------------------
(* Specifications of the issuer *)

Num(n) == [t |-> "number", v |-> n]
Str(n) == [t |-> "string", v |-> n]
Infinity == [t |-> "infinity", v |-> 0]
Undefined == [t |-> "undefined", v |-> 0]

Body(exchange_id, exchange_user_id, coin, side, amount) ==
    [exchange_id |-> exchange_id, exchange_user_id |-> exchange_user_id,
     has_trade_params |-> TRUE,
     trade_params |-> [coin |-> coin, side |-> side, amount |-> amount, news_id |-> ""]]

\* The spec's scenario request, and requests that differ from it in one field
\* (or in two, to see which check comes first).
IssueBodies ==
    {Body("acme", "u1", "BTC", "long", Num(100)),
     Body("zeta", "u1", "BTC", "long", Num(100)),
     Body("ghost", "u1", "BTC", "long", Num(100)),
     Body("", "u1", "BTC", "long", Num(100)),
     Body("acme", "", "BTC", "long", Num(100)),
     [Body("acme", "u1", "", "", Undefined) EXCEPT !.has_trade_params = FALSE],
     Body("acme", "u1", "", "long", Num(100)),
     Body("acme", "u1", "BTC", "buy", Num(100)),
     Body("acme", "u1", "BTC", "", Num(100)),
     Body("acme", "u1", "BTC", "short", Num(0)),
     Body("acme", "u1", "BTC", "short", Num(-1)),
     Body("acme", "u1", "BTC", "short", Str(100)),
     Body("acme", "u1", "BTC", "short", Undefined),
     Body("acme", "u1", "BTC", "short", Infinity),
     Body("zeta", "u1", "BTC", "buy", Num(0))}

(* SpecIssue: NumRequests concurrent requests to /widget/generate-trade-token;
   either query may fail; the clock advances in half seconds. *)
InitIssue == GatewayInit(0, ConnLimit) /\ IssuerInit(NumRequests) /\ DeliveryInit

NextIssue ==
    \/ \E r \in DOMAIN reqs, body \in IssueBodies : generate_trade_token(r, body)
    \/ \E r \in DOMAIN reqs : get_exchange_config_throws(r)
    \/ \E r \in DOMAIN reqs : ResumeConfig(r)
    \/ \E r \in DOMAIN reqs : create_trade_log(r)
    \/ \E r \in DOMAIN reqs : create_trade_log_throws(r)
    \/ \E r \in DOMAIN reqs, d \in {0, 500} : now + d <= MaxIssueTicks * 500 /\ ResumeTradeLog(r, d)
    \/ now < MaxIssueTicks * 500 /\ Tick(500)

SpecIssue == InitIssue /\ [][NextIssue]_vars

\* The tokens a client can make of an issued one without the signing key: one
\* signed field changed and the signature kept.
Alterations(token) ==
    LET p == token.payload
    IN {[token EXCEPT !.payload = q] :
          q \in {[p EXCEPT !.amount = [@ EXCEPT !.v = @ + 1]],
                 [p EXCEPT !.amount = [@ EXCEPT !.v = @ - 1]],
                 [p EXCEPT !.trade_id = @ + 1],
                 [p EXCEPT !.exchange_id = "zeta"],
                 [p EXCEPT !.user_id = "u2"],
                 [p EXCEPT !.coin = "ETH"],
                 [p EXCEPT !.side = IF @ = "long" THEN "short" ELSE "long"],
                 [p EXCEPT !.iat = @ + 1],
                 [p EXCEPT !.exp = @ + TOKEN_EXPIRY_SECONDS]}}

\* What a client can present: the token, an alteration of it, or an alteration
\* signed again with a key the client knows (the public connection keys).
Presentable(token) ==
    {token} \cup Alterations(token)
        \cup {jwt_sign(a.payload, exchanges[e].api_key) : a \in Alterations(token), e \in DOMAIN exchanges}

\* The keys exchange backends verify with: each its own secret signing key.
VerifyKeys == {exchanges[e].secret_signing_key : e \in DOMAIN exchanges}

(* SpecVerify: one request of the active exchange is issued a token, the
   clock runs past its expiry, and exchange backends verify what clients
   present and record the trade's execution with update_trade_status. *)
InitVerify == GatewayInit(0, ConnLimit) /\ IssuerInit(1) /\ DeliveryInit

NextVerify ==
    \/ \E r \in DOMAIN reqs :
          generate_trade_token(r, Body("acme", "u1", "BTC", "long", Num(100)))
    \/ \E r \in DOMAIN reqs : ResumeConfig(r)
    \/ \E r \in DOMAIN reqs : create_trade_log(r)
    \/ \E r \in DOMAIN reqs, d \in {0, 500} : ResumeTradeLog(r, d)
    \/ now < MaxVerifyTicks * 15000 /\ Tick(15000)
    \/ \E issued \in IssuedTokens, k \in VerifyKeys :
          \E presented \in Presentable(issued) : ExecuteTrade(issued, presented, k)
    \/ \E row \in widget_trades :
          row.status = "initiated" /\ update_trade_status(row.trade_id, "executed")

SpecVerify == InitVerify /\ [][NextVerify]_vars

\* The exchange ids of SpecWire: the active acme, the disabled zeta, and one
\* no row carries.
WireIds == {"acme", "zeta", "ghost"}

(* SpecWire: every interface a caller reaches without credentials of its own,
   the callers coming one after another: first WireRequests HTTP requests,
   each to /widget/generate-trade-token or to /widget/config, for a known, a
   disabled or an unknown exchange id; then NumSessions sockets that present a
   connection key, or stay silent until the auth timeout. *)
InitWire == GatewayInit(NumSessions, NumSessions) /\ IssuerInit(WireRequests) /\ DeliveryInit

\* The requests before r have been answered.
RequestsBefore(r) == \A q \in DOMAIN reqs : q < r => reqs[q].pc = "done"

\* The sockets before s have connected and their authentication is over.
SocketsBefore(s) ==
    \A t \in Earlier(s) :
        /\ sess[t].readyState # "NONE"
        /\ handlers[t] = <<>>
        /\ frames[t] # <<>> \/ ~sess[t].auth_timeout

NextWire ==
    \/ \E r \in DOMAIN reqs, id \in WireIds :
          RequestsBefore(r) /\ generate_trade_token(r, Body(id, "u1", "BTC", "long", Num(100)))
    \/ \E r \in DOMAIN reqs : ResumeConfig(r)
    \/ \E r \in DOMAIN reqs : create_trade_log(r)
    \/ \E r \in DOMAIN reqs : ResumeTradeLog(r, 0)
    \/ \E r \in DOMAIN reqs, id \in WireIds \cup {""} :
          RequestsBefore(r) /\ controller_get_config(r, id)
    \/ \E r \in DOMAIN reqs : ResumeGetConfig(r)
    \/ \E s \in DOMAIN sess :
          RequestsBefore(WireRequests + 1) /\ SocketsBefore(s) /\ Connection(s, "10.0.0.1", "")
    \/ \E s \in DOMAIN sess, k \in WireKeys :
          /\ FirstMessage(s)
          /\ sess[s].readyState = "OPEN"
          /\ StartHandleAuth(s, [type |-> "auth", api_key |-> k])
    \/ \E s \in DOMAIN sess : HandlerStep(s)
    \/ \E s \in DOMAIN sess : FirstMessage(s) /\ AuthTimeout(s)

SpecWire == InitWire /\ [][NextWire]_vars

----------------------------------------------------------------------------
(* Claims about connection accounting and admission *)

\* The socket's close has been handled and none of its handlers is suspended.
Ended(s) == sess[s].readyState = "CLOSED" /\ handlers[s] = <<>>

\* C1: every session that authenticated and was counted has, once it has
\* ended (by whichever terminating transition), had the exchange count and the
\* address count decremented exactly once on its behalf; no session is ever
\* decremented twice.
C1_DecrementedExactlyOnce ==
    \A s \in DOMAIN sess :
        /\ acct[s].decr <= 1
        /\ (Ended(s) /\ acct[s].incr > 0) => acct[s].decr = 1

\* C2: once every session of a run of authenticate-then-disconnect cycles is
\* closed, the tenant's connection count and every address count are back at
\* their values before the run (zero).
C2_NoDrift ==
    (\A s \in DOMAIN sess : Ended(s)) =>
        /\ \A e \in ExchangeIds : redis_count[e] = 0
        /\ \A i \in Ips : redis_ip[i] = 0

Authenticated == {s \in DOMAIN sess : sess[s].is_authenticated}
ClosedWith(code) == {s \in DOMAIN sess : sess[s].close_code = code}
AllDecided == \A s \in DOMAIN sess : frames[s] # <<>> /\ handlers[s] = <<>>

\* C3: when limit + 1 sessions authenticate for one tenant at the same time,
\* the authenticated sessions never exceed the limit, and once all have been
\* decided exactly limit are authenticated and exactly one was closed with 4004.
C3_SimultaneousAdmission ==
    /\ Cardinality(Authenticated) <= exchanges["acme"].rate_limit_connections
    /\ AllDecided =>
          /\ Cardinality(Authenticated) = exchanges["acme"].rate_limit_connections
          /\ Cardinality(ClosedWith(4004)) = 1

\* C4 as stated: of limit + 1 attempts made one after another, each of the
\* first limit is admitted and the (limit+1)-th is denied with 4004.
C4_OnlyLastDenied ==
    \A s \in DOMAIN sess :
        Decided(s) =>
            IF s = exchanges["acme"].rate_limit_connections + 1
            THEN sess[s].close_code = 4004 /\ ~sess[s].is_authenticated
            ELSE sess[s].is_authenticated /\ sess[s].close_code = 0

\* The attempts up to s each come from an address holding fewer connections
\* than the per-address limit when they are made.
AddressesBelowLimit(s) ==
    \A t \in DOMAIN sess :
        (t <= s /\ sess[t].readyState # "NONE") =>
            Cardinality({u \in Earlier(t) : sess[u].ip = sess[t].ip})
                < DEFAULT_LIMITS.max_connections_per_ip

\* C4 (amended): of limit + 1 attempts made one after another, none from an
\* address that already holds max_connections_per_ip (10) connections, each of
\* the first limit is admitted and the (limit+1)-th, and only it, is denied,
\* with code 4004.
C4_LastDeniedWhenAddressesBelowLimit ==
    \A s \in DOMAIN sess :
        (Decided(s) /\ AddressesBelowLimit(s)) =>
            IF s = exchanges["acme"].rate_limit_connections + 1
            THEN sess[s].close_code = 4004 /\ ~sess[s].is_authenticated
            ELSE sess[s].is_authenticated /\ sess[s].close_code = 0

\* C4 witness: the (limit+1)-th attempt has been denied with 4004 after limit
\* admissions, no address having reached its own limit.
C4_Witness ==
    LET last == exchanges["acme"].rate_limit_connections + 1
    IN /\ last \in DOMAIN sess
       /\ Decided(last)
       /\ AddressesBelowLimit(last)
       /\ sess[last].close_code = 4004
       /\ Cardinality(Authenticated) = last - 1

----------------------------------------------------------------------------
(* Claims about token issuance and verification *)

\* The audit rows of a trade_id.
RowsOf(trade_id) == {row \in widget_trades : row.trade_id = trade_id}

\* C5: a token is in a caller's hands only if widget_trades holds a row with
\* the token's trade_id, status 'initiated' and the request's exchange and
\* user; a request whose INSERT failed holds no token.
C5_TokenOnlyAfterAuditRow ==
    \A r \in DOMAIN reqs :
        \A token \in reqs[r].response.tokens :
            /\ reqs[r].response.trade_id = token.payload.trade_id
            /\ \E row \in RowsOf(token.payload.trade_id) :
                  /\ row.status = "initiated"
                  /\ row.exchange_id = reqs[r].body.exchange_id
                  /\ row.exchange_user_id = reqs[r].body.exchange_user_id

\* C5 witness: a request has been answered with a token.
C5_Witness ==
    \E r \in DOMAIN reqs :
        reqs[r].pc = "done" /\ reqs[r].response.tokens # {} /\ reqs[r].inserts = 1

\* The exchange_id names no row of exchange_configurations, or a disabled one.
UnknownOrInactive(exchange_id) ==
    exchange_id \notin DOMAIN exchanges \/ ~exchanges[exchange_id].is_active

\* The request carried its three required fields and reached create_signed_token.
ReachedService(r) == reqs[r].body.exchange_id # ""

\* C6: a request for an unknown or inactive exchange never gets as far as the
\* INSERT (no row is written for it, no token issued), and whenever the
\* registry answers the lookup it is refused with INVALID_EXCHANGE: HTTP 400,
\* error 'invalid or inactive exchange id'.
C6_InvalidExchangeBeforePersistence ==
    /\ \A row \in widget_trades : ~UnknownOrInactive(row.exchange_id)
    /\ \A r \in DOMAIN reqs :
          (ReachedService(r) /\ UnknownOrInactive(reqs[r].body.exchange_id)) =>
              /\ reqs[r].inserts = 0
              /\ reqs[r].trade_id = 0
              /\ reqs[r].response.tokens = {}
              /\ reqs[r].pc \in {"config", "done"}
              /\ (reqs[r].pc = "done" /\ reqs[r].response # next_error) =>
                    /\ reqs[r].code = "INVALID_EXCHANGE"
                    /\ reqs[r].response = error_response("invalid or inactive exchange id", 400)

\* C6 witness: a request for the disabled zeta and one for the unknown ghost
\* have both been refused with 400.
C6_Witness ==
    \E r1, r2 \in DOMAIN reqs :
        /\ reqs[r1].body.exchange_id = "zeta"
        /\ reqs[r2].body.exchange_id = "ghost"
        /\ reqs[r1].response.status = 400
        /\ reqs[r2].response.status = 400

\* What the spec asks of trade_params: a non-empty asset symbol, a side of
\* long or short, an amount that is a finite positive number.
WellFormedParams(trade_params) ==
    /\ trade_params.coin # ""
    /\ trade_params.side \in {"long", "short"}
    /\ trade_params.amount.t = "number"
    /\ trade_params.amount.v > 0

\* C7: a request against an active exchange whose trade_params fail one of the
\* three checks is refused with INVALID_TRADE_PARAMS, gets no token and writes
\* no row; every row written comes from parameters that pass all three.
C7_InvalidParamsRejected ==
    \A r \in DOMAIN reqs :
        (/\ ReachedService(r)
         /\ ~UnknownOrInactive(reqs[r].body.exchange_id)
         /\ ~WellFormedParams(reqs[r].body.trade_params)) =>
            /\ reqs[r].inserts = 0
            /\ reqs[r].response.tokens = {}
            /\ (reqs[r].pc = "done" /\ reqs[r].response # next_error) =>
                  /\ reqs[r].code = "INVALID_TRADE_PARAMS"
                  /\ reqs[r].response.status = 400

\* C8: a server error caused by the failure of the INSERT is surfaced only
\* after the INSERT was tried a second time.
C8_RetriedOnceBeforeServerError ==
    \A r \in DOMAIN reqs :
        (reqs[r].pc = "done" /\ reqs[r].response = next_error /\ reqs[r].inserts > 0) =>
            reqs[r].inserts = 2

\* C9: every issued token has exp - iat = TOKEN_EXPIRY_SECONDS, the expires_in
\* returned with it.
C9_FixedWindow ==
    \A r \in DOMAIN reqs :
        \A token \in reqs[r].response.tokens :
            /\ token.payload.exp - token.payload.iat = TOKEN_EXPIRY_SECONDS
            /\ token.payload.exp - token.payload.iat = reqs[r].response.expires_in

\* The verification was made with the signing key of the exchange that issued
\* the token, on the token as issued.
RightKeyUnaltered(v) ==
    /\ v.key = exchanges[v.issued.payload.exchange_id].secret_signing_key
    /\ v.token = v.issued

\* C10: a verification succeeds only with the signing key of the issuing
\* exchange on a token none of whose signed fields was changed, and with that
\* key and that token it does succeed up to the token's expiry.
C10_VerifiesIffKeyAndPayload ==
    \A v \in verified :
        /\ v.result.valid => RightKeyUnaltered(v)
        /\ (RightKeyUnaltered(v) /\ Seconds(v.at) < v.issued.payload.exp) => v.result.valid

\* C10 witness: a token whose amount was changed by one unit has been refused
\* by the exchange holding the right signing key, before the token expired.
C10_Witness ==
    \E v \in verified :
        /\ v.key = exchanges[v.issued.payload.exchange_id].secret_signing_key
        /\ v.token.sig = v.issued.sig
        /\ v.token.payload = [v.issued.payload EXCEPT !.amount = [@ EXCEPT !.v = @ + 1]]
        /\ Seconds(v.at) < v.issued.payload.exp
        /\ ~v.result.valid

\* C11: a verification made at or after the expires_at of the issued token is
\* refused, whatever is presented and whichever key is used: the token itself
\* under the right key (signature valid, payload unaltered) included.
C11_ExpiredRejected ==
    \A v \in verified :
        v.at >= v.issued.payload.exp * 1000 => ~v.result.valid

\* C11 witness: the token as issued, under the signing key of its exchange,
\* has been refused as expired.
C11_Witness ==
    \E v \in verified :
        /\ RightKeyUnaltered(v)
        /\ v.at > v.issued.payload.exp * 1000
        /\ v.result = [valid |-> FALSE, error |-> "jwt expired"]

\* The requests that were answered with a token.
Issued == {r \in DOMAIN reqs : reqs[r].response.tokens # {}}

\* C12: no two requests are answered with the same trade_id, whatever their
\* bodies, and a request answered with a token made one INSERT, which wrote
\* the one row of its trade_id.
C12_UniqueTradeIds ==
    /\ \A r1, r2 \in Issued :
          r1 # r2 => \A t1 \in reqs[r1].response.tokens, t2 \in reqs[r2].response.tokens :
                        t1.payload.trade_id # t2.payload.trade_id
    /\ \A r \in Issued :
          /\ reqs[r].inserts = 1
          /\ Cardinality(RowsOf(reqs[r].response.trade_id)) = 1
    /\ Cardinality(widget_trades) >= Cardinality(Issued)

\* C12 witness: two requests with identical bodies have both been answered
\* with a token.
C12_Witness ==
    \E r1, r2 \in Issued : r1 # r2 /\ reqs[r1].body = reqs[r2].body

----------------------------------------------------------------------------
(* Claims about the session's protocol *)

\* The session is connected and no frame of it has arrived.
Silent(s) == sess[s].readyState # "NONE" /\ frames[s] = <<>>

\* The session is in no accounting: no registry entry, no member of an
\* exchange's set, never counted.
AbsentFromAccounting(s) ==
    /\ s \notin DOMAIN connections
    /\ \A e \in ExchangeIds : s \notin redis_set[e]
    /\ acct[s].incr = 0

TimeoutError == [type |-> "error", error |-> "authentication timeout", code |-> 4001]

\* What holds of a session as long as it is silent: it is in no accounting;
\* while it is open its auth timer is armed; the timer closes it with 4001
\* after sending the timeout error; closed, it was closed by the timer or by
\* the client itself.
SilentSessionInv(s) ==
    Silent(s) =>
        /\ AbsentFromAccounting(s)
        /\ ~sess[s].is_authenticated
        /\ sess[s].readyState = "OPEN" => sess[s].auth_timeout
        /\ sess[s].readyState = "CLOSING" =>
              sess[s].close_code = 4001 /\ sess[s].outbox = <<TimeoutError>>
        /\ sess[s].readyState = "CLOSED" => sess[s].close_code \in {4001, 1000}

\* The close of a silent session has been handled: by the timer's 4001, or
\* because the client left before the timer ran out.
SilentClosed(s) ==
    /\ sess[s].readyState = "CLOSED"
    /\ sess[s].close_code = 4001 \/ (sess[s].close_code = 1000 /\ sess[s].outbox = <<>>)
    /\ AbsentFromAccounting(s)

\* C13: a session that sends no message is never in connection accounting;
\* its auth timer stays armed while it is open and closes it with code 4001
\* when it fires; and a session that stays silent does get closed, by the
\* timer with 4001 unless the client left first, and is then absent from
\* accounting.
C13_SilentSessionTimesOut ==
    /\ [](\A s \in 1..NumSessions : SilentSessionInv(s))
    /\ \A s \in 1..NumSessions :
          (Silent(s) /\ sess[s].readyState \in {"OPEN", "CLOSING"}) ~> (~Silent(s) \/ SilentClosed(s))

\* C13 witness: a silent session was closed by its auth timer and the close
\* has been handled.
C13_Witness ==
    \E s \in DOMAIN sess :
        /\ Silent(s)
        /\ SilentClosed(s)
        /\ sess[s].close_code = 4001
        /\ sess[s].outbox = <<TimeoutError>>

\* The first frame of a session, as parsed.
FirstFrame(s) == frames[s][1].data.message

\* The codes of the error messages the session has been sent.
ErrorCodes(s) ==
    {sess[s].outbox[k].code : k \in {j \in DOMAIN sess[s].outbox : sess[s].outbox[j].type = "error"}}

\* The auth timer closed the session before anything else did.
TimedOut(s) == 4001 \in ErrorCodes(s)

\* The codes of the authentication failures reported to the session.
AuthCodes(s) == ErrorCodes(s) \ {4001}

\* The first of the checks 1 to 3 of the authentication transition that the
\* session's connection key and origin fail: 4002 when the key resolves to no
\* exchange, 4003 when the exchange is disabled, 4008 when the origin is
\* refused; 0 when they pass all three.
FirstFailingCheck(s) ==
    LET resolved == {e \in DOMAIN exchanges : exchanges[e].api_key = FirstFrame(s).api_key}
    IN IF FirstFrame(s).api_key = "" \/ resolved = {} THEN 4002
       ELSE IF \E e \in resolved : ~exchanges[e].is_active THEN 4003
       ELSE IF \E e \in resolved : /\ exchanges[e].allowed_origins # {}
                                    /\ sess[s].origin # ""
                                    /\ sess[s].origin \notin exchanges[e].allowed_origins THEN 4008
       ELSE 0

\* The connections of acme held by the sockets that were there from the start.
HeldCount == Cardinality({s \in DOMAIN sess \ Fresh : sess[s].is_authenticated})

\* C14: a session whose auth request fails one of the checks key, active,
\* origin is never authenticated and is reported the code of the first check
\* it fails and no other (4002, 4003, 4008 in this order), and is closed with
\* it when the auth timer has not closed it before; a session that passes the
\* three is reported nothing but the limiter's 4004 or 4005, 4004 whenever the
\* exchange is at its limit, and is authenticated exactly when the limiter
\* denies nothing.
C14_FirstFailingCheckReported ==
    \A s \in Fresh :
        (frames[s] # <<>> /\ FirstFrame(s).type = "auth") =>
            LET expected == FirstFailingCheck(s)
                limit == exchanges["acme"].rate_limit_connections
            IN /\ expected # 0 =>
                     /\ ~sess[s].is_authenticated
                     /\ AuthCodes(s) \subseteq {expected}
                     /\ (Decided(s) /\ ~TimedOut(s)) =>
                           AuthCodes(s) = {expected} /\ sess[s].close_code = expected
               /\ expected = 0 =>
                     /\ AuthCodes(s) \subseteq {4004, 4005}
                     /\ HeldCount >= limit => AuthCodes(s) \subseteq {4004}
                     /\ 4005 \in AuthCodes(s) =>
                           redis_ip[sess[s].ip] >= DEFAULT_LIMITS.max_connections_per_ip
                     /\ sess[s].is_authenticated => AuthCodes(s) = {}
                     /\ (Decided(s) /\ ~TimedOut(s)) =>
                           (sess[s].is_authenticated <=> AuthCodes(s) = {})
                     /\ (Decided(s) /\ ~TimedOut(s) /\ ~sess[s].is_authenticated) =>
                           sess[s].close_code \in AuthCodes(s)

\* C14 witness: a session with the key of the disabled zeta and an origin
\* outside zeta's allow-list has been closed with 4003, the earlier check.
C14_Witness ==
    \E s \in Fresh :
        /\ Decided(s)
        /\ FirstFrame(s) = [type |-> "auth", api_key |-> "wk_2"]
        /\ exchanges["zeta"].allowed_origins # {}
        /\ sess[s].origin = "https://b.example"
        /\ sess[s].close_code = 4003
        /\ AuthCodes(s) = {4003}

\* C15: of the sessions that authenticate with acme's key: when acme has an
\* allow-list and the session a non-empty origin outside it, the session is
\* never authenticated and is closed with 4008; otherwise (origin in the list,
\* no origin, or no list) it is never reported 4008 and, the gateway holding
\* no other connections, it is authenticated and sent auth_success.
C15_OriginAllowList ==
    \A s \in Fresh :
        (frames[s] # <<>> /\ FirstFrame(s) = [type |-> "auth", api_key |-> "wk_1"]) =>
            LET list == exchanges["acme"].allowed_origins
                origin == sess[s].origin
            IN IF list # {} /\ origin # "" /\ origin \notin list
               THEN /\ ~sess[s].is_authenticated
                    /\ (Decided(s) /\ ~TimedOut(s)) =>
                          sess[s].close_code = 4008 /\ AuthCodes(s) = {4008}
               ELSE /\ 4008 \notin ErrorCodes(s)
                    /\ (Decided(s) /\ HeldCount = 0) => sess[s].is_authenticated
                    /\ (Decided(s) /\ HeldCount = 0 /\ ~TimedOut(s)) =>
                          sess[s].outbox = <<[type |-> "auth_success", exchange_id |-> "acme"]>>

\* C15 witness: acme allows https://a.example only, and a session declaring
\* https://b.example has been closed with 4008.
C15_Witness ==
    \E s \in Fresh :
        /\ Decided(s)
        /\ FirstFrame(s) = [type |-> "auth", api_key |-> "wk_1"]
        /\ exchanges["acme"].allowed_origins = {"https://a.example"}
        /\ sess[s].origin = "https://b.example"
        /\ sess[s].close_code = 4008
        /\ ~sess[s].is_authenticated

\* C16: a session whose first frame parses and is no auth request is closing
\* or closed with code 4007 (unless its auth timer had closed it already).
C16_NonAuthFirstMessageClosedWith4007 ==
    \A s \in Fresh :
        (/\ frames[s] # <<>>
         /\ ~JSON_parse_throws(frames[s][1].data)
         /\ FirstFrame(s).type # "auth"
         /\ ~TimedOut(s)) =>
            /\ sess[s].readyState \in {"CLOSING", "CLOSED"}
            /\ sess[s].close_code = 4007

\* C17: a session that was answered the rate limiter's 4006 is closing or
\* closed, with code 4006.
C17_RateDenialCloses ==
    \A s \in DOMAIN sess :
        4006 \in ErrorCodes(s) =>
            /\ sess[s].readyState \in {"CLOSING", "CLOSED"}
            /\ sess[s].close_code = 4006

\* The frame is a protocol violation: text that is no JSON, or an auth request
\* on a session that is authenticated.
ProtocolViolation(entry) ==
    \/ entry.data = Text("garbage")
    \/ entry.is_authenticated /\ entry.data.json /\ entry.data.message.type = "auth"

\* C18: a session that has received a malformed frame, or an auth request
\* after it was authenticated, is not open any more.
C18_ProtocolViolationFatal ==
    \A s \in DOMAIN sess :
        (\E k \in DOMAIN frames[s] : ProtocolViolation(frames[s][k])) =>
            sess[s].readyState \in {"CLOSING", "CLOSED"}

\* The pings, bare or JSON, the session sent while authenticated.
Pings(s) ==
    {k \in DOMAIN frames[s] :
        frames[s][k].is_authenticated /\ frames[s][k].data \in {Text("ping"), Json(Ping)}}

Pongs(s) == {k \in DOMAIN sess[s].outbox : sess[s].outbox[k] = [type |-> "pong"]}

\* C19: an open session whose handlers have all finished has been sent one
\* pong for each ping, bare or JSON, it sent while authenticated, and a
\* session that sent no other text than bare pings while authenticated has
\* not been answered 'invalid message format'.
C19_BarePingAnswered ==
    \A s \in DOMAIN sess :
        /\ (sess[s].readyState = "OPEN" /\ handlers[s] = <<>>) =>
              Cardinality(Pongs(s)) = Cardinality(Pings(s))
        /\ (\A k \in DOMAIN frames[s] :
               frames[s][k].data.json \/ (frames[s][k].data = Text("ping") /\ frames[s][k].is_authenticated)) =>
              4007 \notin ErrorCodes(s)

ShutdownError == [type |-> "error", error |-> "server shutting down", code |-> 4009]

\* C20: a step of graceful_shutdown sends every session that is open the
\* 4009 error and starts its close with code 4009, and leaves the registry
\* empty.
C20_ShutdownNotifiesEveryOpenSession ==
    [][graceful_shutdown =>
         /\ \A s \in DOMAIN sess :
               sess[s].readyState = "OPEN" =>
                   /\ sess'[s].outbox = Append(sess[s].outbox, ShutdownError)
                   /\ sess'[s].readyState = "CLOSING"
                   /\ sess'[s].close_code = 4009
         /\ DOMAIN connections' = {}]_vars

----------------------------------------------------------------------------
(* Claims about what leaves the backend *)

Secrets == {exchanges[e].secret_signing_key : e \in DOMAIN exchanges}

\* The fields of responses, token payloads and socket messages that hold text.
TextFields ==
    {"type", "error", "exchange_id", "display_name", "theme_config", "feature_flags",
     "user_id", "coin", "side", "news_id"}

\* An object put on the wire carries a signing key: under the key's own field
\* name, or as the text of one of its fields.
Discloses(object) ==
    \/ "secret_signing_key" \in DOMAIN object
    \/ \E f \in DOMAIN object \cap TextFields : object[f] \in Secrets

PublicConfigFields == {"exchange_id", "display_name", "theme_config", "feature_flags"}

IssuanceFields == {"token", "trade_id", "expires_in"}

ConfigResponses == {r \in DOMAIN reqs : reqs[r].route = "config" /\ reqs[r].pc = "done"}

IssuanceResponses == {r \in DOMAIN reqs : reqs[r].route = "generate-trade-token" /\ reqs[r].pc = "done"}

UnknownOrInactiveKey(api_key) ==
    \A e \in DOMAIN exchanges : exchanges[e].api_key = api_key => ~exchanges[e].is_active

\* What the caller sees of the answer to request r.
WireResponse(r) ==
    [status |-> reqs[r].response.status, success |-> reqs[r].response.success,
     error |-> reqs[r].response.error, data |-> reqs[r].response.data]

\* The requests that were answered after the lookup of an unknown or disabled id.
RefusedRequests ==
    {r \in DOMAIN reqs :
        reqs[r].pc = "done" /\ ReachedService(r) /\ UnknownOrInactive(reqs[r].body.exchange_id)}

\* The sockets whose auth request carried an unknown or disabled key and has
\* been answered.
RefusedSockets ==
    {s \in DOMAIN sess : Decided(s) /\ UnknownOrInactiveKey(FirstFrame(s).api_key)}

\* C22: what an unauthenticated caller sees is the same whether the exchange id
\* or connection key it presented is unknown or belongs to a disabled exchange:
\* two such requests to one route get the same status and body, and two such
\* sockets the same messages and the same close code.
C22_UnknownAndInactiveAlike ==
    /\ \A q, r \in RefusedRequests :
          reqs[q].route = reqs[r].route => WireResponse(q) = WireResponse(r)
    /\ \A s, t \in RefusedSockets :
          sess[s].outbox = sess[t].outbox /\ sess[s].close_code = sess[t].close_code

\* The part of C22 that is about the two HTTP routes.
C22_RequestsAlike ==
    \A q, r \in RefusedRequests :
        reqs[q].route = reqs[r].route => WireResponse(q) = WireResponse(r)

----------------------------------------------------------------------------
(* Claims about the counters, the heartbeat and the broadcasts *)

\* C23: the connection count of every exchange and of every address is never
\* negative, whatever the sequence of connects, disconnects, shutdown and
\* expiry of the counter keys, and a session that was never counted is never
\* decremented.
C23_CountersNeverNegative ==
    /\ \A e \in ExchangeIds : redis_count[e] >= 0
    /\ \A ip \in Ips : redis_ip[ip] >= 0
    /\ \A s \in DOMAIN sess : acct[s].decr > 0 => acct[s].incr > 0

\* The peer of the session has left MaxUnanswered pings in a row unanswered:
\* it did not answer within a heartbeat interval.
HeartbeatExpired(s) == sess[s].heartbeat_interval /\ sess[s].unanswered = MaxUnanswered

\* The teardown of a session: closed, its heartbeat stopped, no registry entry.
TornDown(s) ==
    /\ sess[s].readyState = "CLOSED"
    /\ ~sess[s].heartbeat_interval
    /\ s \notin DOMAIN connections

\* C24: a session whose peer stops answering heartbeats is eventually closed
\* and torn down like any other: its heartbeat is stopped and it is removed
\* from connection accounting.
C24_HeartbeatExpiryCloses ==
    \A s \in 1..NumSessions : HeartbeatExpired(s) ~> TornDown(s)

\* The step is a broadcast.
BroadcastStep == broadcasts'.calls = broadcasts.calls + 1

\* The sockets the step sent a message to.
Got == {s \in DOMAIN sess : sess'[s].outbox # sess[s].outbox}

\* The registry entries the broadcast of the step is addressed to.
Addressed ==
    {s \in DOMAIN connections :
        broadcasts'.fn = "broadcast_to_exchange" => connections[s].exchange_id = broadcasts'.exchange_id}

\* C25: in a broadcast every open socket of the registry the broadcast is
\* addressed to, whose own send does not fail, gets the event, whatever sends
\* fail and whichever sockets are not open among the others; and the count
\* returned is the number of sockets the event was sent to.
C25_BroadcastIsolatesFailures ==
    [][BroadcastStep =>
          /\ \A s \in Addressed :
                sess[s].readyState = "OPEN" /\ s \notin broadcasts'.throws
                    => sess'[s].outbox = Append(sess[s].outbox, NewsEvent)
          /\ broadcasts'.sent = Cardinality(Got)]_vars

\* A broadcast was delivered to one socket of the registry and not to another
\* it was addressed to, whose send threw or which was not open.
C25_Witness ==
    /\ broadcasts.fn = "broadcast_to_all"
    /\ broadcasts.sent > 0
    /\ \E s \in DOMAIN connections :
          /\ \A i \in DOMAIN sess[s].outbox : sess[s].outbox[i].type # "news"
          /\ \/ s \in broadcasts.throws /\ sess[s].readyState = "OPEN"
             \/ sess[s].readyState = "CLOSED"

\* C26: a broadcast delivers only to sockets that have authenticated, and
\* broadcast_to_exchange only to sockets that authenticated for the exchange
\* it names.
C26_BroadcastOnlyToOwnExchange ==
    [][BroadcastStep =>
          \A s \in Got :
              /\ sess[s].is_authenticated
              /\ broadcasts'.fn = "broadcast_to_exchange" => sess[s].exchange_id = broadcasts'.exchange_id]_vars

\* broadcast_to_exchange has delivered to a socket of its exchange while an
\* open authenticated socket of the other exchange got nothing.
C26_Witness ==
    /\ broadcasts.fn = "broadcast_to_exchange"
    /\ broadcasts.sent > 0
    /\ \E s \in DOMAIN connections :
          /\ sess[s].is_authenticated
          /\ sess[s].readyState = "OPEN"
          /\ sess[s].exchange_id # broadcasts.exchange_id
          /\ \A i \in DOMAIN sess[s].outbox : sess[s].outbox[i].type # "news"

----------------------------------------------------------------------------
(* Claims about the widget client *)

\* The client has been handed the gateway's auth_success on the socket it holds.
AcknowledgedToClient ==
    /\ client.state = "OPEN"
    /\ \E i \in 1..client.read : sess[client.socket].outbox[i].type = "auth_success"

\* C27: once the client has received the gateway's acknowledgment of a
\* successful authentication (auth_success), its connection status is
\* connected and on_open has been called: both sides use one acknowledgment type.
C27_AcknowledgmentConnects ==
    AcknowledgedToClient => client.is_connected /\ client.on_open > 0

NoReconnectCodes == {1000, 4001, 4002, 4003}

\* C28: the client has a reconnect scheduled only after a close with a code
\* other than 1000, 4001, 4002 and 4003.
C28_NoReconnectOnFinalCodes ==
    client.reconnect_timer > 0 => client.close_code \notin NoReconnectCodes

\* The gateway has acknowledged no authentication and the page has not
\* called disconnect.
NeverAcknowledged ==
    /\ client.has_config
    /\ \A s \in DOMAIN sess : \A i \in DOMAIN sess[s].outbox : sess[s].outbox[i].type # "auth_success"

\* C29: while the gateway acknowledges no authentication, the client creates
\* at most 1 + max_reconnect_attempts sockets, and its k-th reconnect is
\* delayed by reconnect_delay * 2^(k-1).
C29_ReconnectsBounded ==
    NeverAcknowledged =>
        /\ client.opened <= 1 + max_reconnect_attempts
        /\ \A k \in DOMAIN client.delays : client.delays[k] = reconnect_delay * Pow2(k - 1)

\* The first half of C29 alone: the number of sockets.
C29_SocketsBounded ==
    NeverAcknowledged => client.opened <= 1 + max_reconnect_attempts

----------------------------------------------------------------------------
(* Claims about the order of message handling *)

\* C30: within one session the handling of a message does not start before
\* the handling of the previous message of the socket has finished: no socket
\* ever has more than one handler started and not yet returned.
C30_OneHandlerAtATime ==
    \A s \in DOMAIN sess : Len(handlers[s]) <= 1

----------------------------------------------------------------------------
(* Claims about timers, limits and the registry *)

\* C31: once the close of a session has been handled, neither its
\* authentication timer nor a heartbeat timer of it is armed, however the
\* close interleaves with the handling of authentication frames.
C31_NoTimerAfterClose ==
    \A s \in DOMAIN sess :
        sess[s].readyState = "CLOSED" =>
            /\ ~sess[s].auth_timeout
            /\ ~sess[s].heartbeat_interval

\* The frames the session sent while authenticated, and the 4006 errors it
\* was sent.
Messages(s) == {k \in DOMAIN frames[s] : frames[s][k].is_authenticated}
Denials(s) ==
    {k \in DOMAIN sess[s].outbox :
        sess[s].outbox[k].type = "error" /\ sess[s].outbox[k].code = 4006}

\* C32: the message rate of a session is checked against the
\* rate_limit_messages_per_minute its tenant is configured with: an open
\* session whose handlers have finished has been denied exactly the messages
\* of the minute beyond that limit.
C32_TenantMessageLimitApplied ==
    \A s \in DOMAIN sess :
        (sess[s].readyState = "OPEN" /\ sess[s].is_authenticated /\ handlers[s] = <<>>) =>
            LET limit == exchanges[sess[s].exchange_id].rate_limit_messages_per_minute
                sent == Cardinality(Messages(s))
            IN Cardinality(Denials(s)) = IF sent > limit THEN sent - limit ELSE 0

\* The messages the session sent in minute m, and the messages of the minutes
\* 0..m beyond the limit of each minute.
SentIn(s, m) ==
    Cardinality({k \in Messages(s) : frames[s][k].at \div 60000 = m})

RECURSIVE Beyond(_, _, _)
Beyond(s, m, limit) ==
    IF m < 0 THEN 0
    ELSE (IF SentIn(s, m) > limit THEN SentIn(s, m) - limit ELSE 0)
         + Beyond(s, m - 1, limit)

\* C33: message-rate limiting is a fixed window per wall-clock minute: of
\* the messages a socket sends in one minute the first messages_per_minute
\* are allowed (a ping is answered with a pong) and every later one is denied
\* with code 4006, and the count starts again at the minute boundary.
C33_FixedWindowPerMinute ==
    \A s \in DOMAIN sess :
        (sess[s].readyState = "OPEN" /\ sess[s].is_authenticated /\ handlers[s] = <<>>) =>
            LET denied == Beyond(s, now \div 60000, DEFAULT_LIMITS.messages_per_minute)
            IN /\ Cardinality(Denials(s)) = denied
               /\ Cardinality(Pongs(s)) = Cardinality(Messages(s)) - denied

\* A socket was denied messages in the first minute and has been answered a
\* ping it sent after the boundary.
C33_Witness ==
    \E s \in DOMAIN sess :
        /\ sess[s].readyState = "OPEN" /\ handlers[s] = <<>>
        /\ SentIn(s, 0) > DEFAULT_LIMITS.messages_per_minute + 1
        /\ SentIn(s, 1) >= 1
        /\ Cardinality(Denials(s)) = SentIn(s, 0) - DEFAULT_LIMITS.messages_per_minute
        /\ Cardinality(Pongs(s)) = DEFAULT_LIMITS.messages_per_minute + SentIn(s, 1)

\* What acme's socket s is answered when zeta's clients do nothing: the
\* sockets up to the connection limit are acknowledged, the others are
\* refused with 4004.
AloneAdmitted(s) == s <= exchanges["acme"].rate_limit_connections

AloneFirstAnswer(s) ==
    IF AloneAdmitted(s)
    THEN [type |-> "auth_success", exchange_id |-> "acme"]
    ELSE [type |-> "error", error |-> "exchange connection limit reached", code |-> 4004]

\* C34: the admission and rate decisions for tenant acme do not depend on
\* what tenant zeta's clients do from other addresses: whatever zeta's
\* sockets do, each of acme's sockets is answered as in the run in which
\* zeta's clients do nothing, and the counts acme's decisions are taken from
\* count acme's sockets and messages only.
C34_TenantIsolation ==
    /\ \A s \in ASockets :
          Decided(s) =>
              /\ sess[s].outbox[1] = AloneFirstAnswer(s)
              /\ sess[s].is_authenticated = AloneAdmitted(s)
              /\ sess[s].readyState = IF AloneAdmitted(s) THEN "OPEN" ELSE "CLOSING"
              /\ Denials(s) = {}
              /\ Cardinality(Pongs(s)) = Cardinality(Messages(s))
    /\ redis_count["acme"] = Cardinality({s \in ASockets : acct[s].incr = 1})
    /\ redis_ip["10.0.0.1"] = Cardinality({s \in ASockets : acct[s].incr = 1})
    /\ \A s \in ASockets : redis_rate[s].count = Cardinality(Messages(s))

\* Both tenants are at work: a socket of zeta has authenticated and pinged
\* before a socket of acme was acknowledged and another was refused.
C34_Witness ==
    /\ \E s \in BSockets : sess[s].is_authenticated /\ Messages(s) # {}
    /\ \E s \in ASockets : Decided(s) /\ AloneAdmitted(s) /\ Pongs(s) # {}
    /\ \E s \in ASockets : Decided(s) /\ ~AloneAdmitted(s)

\* The socket passes the checks of key, tenant and origin while the exchange
\* is at its connection limit and the socket's address at the address limit.
BothLimitsViolated(s) ==
    /\ frames[s] # <<>>
    /\ FirstFrame(s).type = "auth"
    /\ FirstFailingCheck(s) = 0
    /\ HeldCount >= exchanges["acme"].rate_limit_connections
    /\ HeldCount >= DEFAULT_LIMITS.max_connections_per_ip
    /\ sess[s].ip = "10.0.0.2"

\* C35: a session that violates the exchange connection limit and the
\* address connection limit at once is denied with 4004, the exchange limit,
\* and is never reported 4005.
C35_ExchangeLimitReportedFirst ==
    \A s \in Fresh :
        BothLimitsViolated(s) =>
            /\ 4005 \notin ErrorCodes(s)
            /\ ~sess[s].is_authenticated
            /\ (Decided(s) /\ ~TimedOut(s)) =>
                  /\ AuthCodes(s) = {4004}
                  /\ sess[s].close_code = 4004

\* A socket of the address at its limit was denied with 4004 by the exchange
\* at its limit.
C35_Witness ==
    \E s \in Fresh :
        /\ BothLimitsViolated(s)
        /\ Decided(s)
        /\ redis_count["acme"] >= exchanges["acme"].rate_limit_connections
        /\ redis_ip["10.0.0.2"] >= DEFAULT_LIMITS.max_connections_per_ip
        /\ AuthCodes(s) = {4004}
        /\ sess[s].close_code = 4004

\* The step authenticates socket s, and the step sends socket s the
\* acknowledgment.
Authenticates(s) == ~sess[s].is_authenticated /\ sess'[s].is_authenticated

Acknowledges(s) ==
    /\ Len(sess'[s].outbox) = Len(sess[s].outbox) + 1
    /\ sess'[s].outbox[Len(sess'[s].outbox)].type = "auth_success"

\* C36: a session that has authenticated is counted once: add_connection has
\* incremented the count of its exchange and the count of its address for it
\* exactly once, and every acknowledgment sent to it carries the exchange_id
\* its key resolved to and nothing else.
C36_SessionCountedOnce ==
    \A s \in DOMAIN sess :
        sess[s].is_authenticated =>
            /\ acct[s].incr = 1
            /\ \A i \in DOMAIN sess[s].outbox :
                  sess[s].outbox[i].type = "auth_success" =>
                      sess[s].outbox[i] = [type |-> "auth_success", exchange_id |-> sess[s].exchange_id]

\* The acknowledgments of C36 alone.
C36_AcknowledgmentCarriesExchangeId ==
    \A s \in DOMAIN sess :
        \A i \in DOMAIN sess[s].outbox :
            sess[s].outbox[i].type = "auth_success" =>
                /\ sess[s].is_authenticated
                /\ sess[s].outbox[i] = [type |-> "auth_success", exchange_id |-> sess[s].exchange_id]

\* The step in which a socket that is not authenticated becomes so: it
\* registers the session under the exchange its key resolves to and its
\* address, adds it to the exchange's set and increments the count of that
\* exchange and the count of its address by exactly one, every other count
\* staying as it is; the acknowledgment carries that exchange_id and nothing
\* else, never the connection key.  This covers the first of the success
\* paths a socket runs, not a second one that is run while is_authenticated
\* is set already.
C36_SuccessRegistersAndCountsOnce ==
    [][\A s \in Fresh :
          /\ Authenticates(s) =>
                LET e == sess'[s].exchange_id
                    ip == sess[s].ip
                IN /\ exchanges[e].api_key = FirstFrame(s).api_key
                   /\ s \notin DOMAIN connections
                   /\ DOMAIN connections' = DOMAIN connections \cup {s}
                   /\ connections'[s] = [exchange_id |-> e, ip |-> ip]
                   /\ redis_set' = [redis_set EXCEPT ![e] = @ \cup {s}]
                   /\ redis_count' = [redis_count EXCEPT ![e] = @ + 1]
                   /\ redis_ip' = [redis_ip EXCEPT ![ip] = @ + 1]
          /\ Acknowledges(s) =>
                LET ack == sess'[s].outbox[Len(sess'[s].outbox)]
                IN /\ sess[s].is_authenticated
                   /\ ack = [type |-> "auth_success", exchange_id |-> connections[s].exchange_id]
                   /\ ack.exchange_id # FirstFrame(s).api_key
                   /\ UNCHANGED <<connections, redis_set, redis_ttl, redis_count, redis_ip>>
      ]_vars

\* A socket that presented wk_1 is registered for acme, counted once and has
\* been acknowledged with acme's exchange_id.
C36_Witness ==
    \E s \in Fresh :
        /\ Decided(s)
        /\ FirstFrame(s).api_key = "wk_1"
        /\ sess[s].is_authenticated
        /\ s \in DOMAIN connections /\ connections[s].exchange_id = "acme"
        /\ s \in redis_set["acme"]
        /\ acct[s].incr = 1
        /\ redis_count["acme"] = HeldCount + 1
        /\ sess[s].outbox = <<[type |-> "auth_success", exchange_id |-> "acme"]>>

\* C37: every entry of the connection registry belongs to a session whose
\* close has not been handled: no session is added to the registry after its
\* close event.
C37_RegistryHoldsNoClosedSession ==
    \A s \in DOMAIN connections : sess[s].readyState # "CLOSED"

\* The registry entries of the exchange, and those of the address.
EntriesOf(e) == {s \in DOMAIN connections : connections[s].exchange_id = e}
EntriesAt(ip) == {s \in DOMAIN connections : connections[s].ip = ip}

\* C38: whenever no add_connection and no remove_connection is in progress,
\* the stored connection count of every exchange equals the size of its
\* stored set of socket ids and the number of its registry entries, and the
\* stored count of every address equals the number of registry entries with
\* that address.
C38_CountsMatchRegistry ==
    AllSettled =>
        /\ \A e \in ExchangeIds :
              /\ redis_count[e] = Cardinality(redis_set[e])
              /\ redis_count[e] = Cardinality(EntriesOf(e))
        /\ \A ip \in Ips : redis_ip[ip] = Cardinality(EntriesAt(ip))

----------------------------------------------------------------------------
(* Claims about the sockets and timers of the widget's service *)

\* C39: at any time at most one socket the service created is connecting or
\* open and at most one ping interval is armed; in particular a reconnect
\* timer scheduled before disconnect() creates no socket next to the one of
\* a later connect().
C39_OneSocketOneInterval ==
    /\ Cardinality(LiveSockets) <= 1
    /\ client.intervals <= 1

\* The first half of C39 alone, and the second.
C39_OneSocket == Cardinality(LiveSockets) <= 1
C39_OneInterval == client.intervals <= 1

====
